---- MODULE Spec2Model ----
(***************************************************************************)
(* Sentiment fusion, sector ranking and portfolio allocation of the        *)
(* investment recommendation agent.                                        *)
(*                                                                         *)
(* Floating point values of the program are IEEE 754 binary64 values with  *)
(* round-to-nearest-even arithmetic, as CPython computes them.             *)
(***************************************************************************)
EXTENDS Integers, Sequences, FiniteSets, TLC

(***************************************************************************)
(* State                                                                   *)
(***************************************************************************)
VARIABLES
    pc,                     \* "start", then the name of the entry point that ran
    sector_results,         \* argument of _rank_sectors
    sector_rankings,        \* its return value
    stock_recommendations,  \* argument of _calculate_portfolio_allocation
    alloc_args,             \* its portfolio_size and risk_tolerance
    portfolio_allocation,   \* its return value
    final_recommendations,  \* return value of generate_investment_recommendations
    news_args,              \* arguments of calculate_weighted_combined_sentiment
    weighted_combined,      \* its return value
    self_weights,           \* UnifiedSentimentAnalyzer.weights
    channel_args,           \* include flags and what each channel's fetch gave
    combined_result,        \* return value of analyze_comprehensive_sentiment
    call_args,              \* arguments of the function pc names, called alone
    call_result             \* its return value

\* Call(op): the operation named op, as a function of its arguments; the
\* arithmetic and the entry points are evaluated through it
RECURSIVE Call(_)

(***************************************************************************)
(* Bounds of the model                                                     *)
(***************************************************************************)
\* number of SECTOR_MAPPINGS sectors that may occur in sector_results
NumSectors == 4
\* number of sectors handed to the allocator in a direct call
MaxAllocSectors == 2
\* number of stocks per sector handed to the allocator in a direct call
MaxAllocStocks == 2
\* number of items in a news category
MaxItems == 2
\* number of sectors with news in a run of the whole recommendation pipeline
NumPipelineSectors == 2
\* largest max_sectors argument
MaxSectorsArg == 2
\* largest stocks_per_sector argument
MaxStocksPerSector == 2

\* number of sectors with news in a direct call of _select_top_sectors
MaxRankedSectors == 3
\* number of items of a list that is aggregated in two orders
MaxPermuted == 3
\* number of words of a classified text that contain a financial keyword
MaxKeywordWords == 2
\* number of phrases of an article's headline and summary
MaxPhrases == 2
\* number of articles of a sector
MaxArticles == 3
\* number of articles of a category in the news analysis of the fusion
MaxFetchedArticles == 1
\* oldest publication time, in steps of six hours before the current time
MaxAgeSteps == 8
\* latest publication time, in steps of six hours after the current time
MaxFutureSteps == 2

(***************************************************************************)
(* Integer helpers.  The helpers and the arithmetic below are functions:   *)
(* F[a, b] is F applied to the values of a and b                           *)
(***************************************************************************)
Abs[n \in Any] == IF n < 0 THEN -n ELSE n

Max2[a \in Any, b \in Any] == IF a >= b THEN a ELSE b

Min2[a \in Any, b \in Any] == IF a <= b THEN a ELSE b

\* the list of the values of a function on 1..n
List[f \in Any] == f \o <<>>

(***************************************************************************)
(* Natural numbers below 2^112: their eight digits in base 2^14, lowest    *)
(* digit first                                                             *)
(***************************************************************************)
Base == 2^14

PowersOfTwo ==
    <<1, 2, 4, 8, 16, 32, 64, 128, 256, 512, 1024, 2048, 4096, 8192, 16384>>

\* 2^n for n in 0..14
Pow2[n \in Any] == PowersOfTwo[n + 1]

Limb[x \in Any, j \in Any] == IF j >= 1 /\ j <= Len(x) THEN x[j] ELSE 0

Carry == Call("Carry")

\* the digits of the number whose digit positions hold the sums c[1..8]:
\* every carry, or borrow, is moved to the next position
CarryDef[c \in Any] ==
    LET t1 == c[1]
        t2 == c[2] + (t1 \div Base)
        t3 == c[3] + (t2 \div Base)
        t4 == c[4] + (t3 \div Base)
        t5 == c[5] + (t4 \div Base)
        t6 == c[6] + (t5 \div Base)
        t7 == c[7] + (t6 \div Base)
        t8 == c[8] + (t7 \div Base)
    IN <<t1 % Base, t2 % Base, t3 % Base, t4 % Base,
         t5 % Base, t6 % Base, t7 % Base, t8 % Base>>

BAdd[x \in Any, y \in Any] == Carry[[i \in 1..8 |-> x[i] + y[i]]]

\* x - y for x >= y
BSub[x \in Any, y \in Any] == Carry[[i \in 1..8 |-> x[i] - y[i]]]

\* a * b for a, b below 2^56
BMul[a \in Any, b \in Any] ==
    Carry[<<a[1] * b[1],
            a[1] * b[2] + a[2] * b[1],
            a[1] * b[3] + a[2] * b[2] + a[3] * b[1],
            a[1] * b[4] + a[2] * b[3] + a[3] * b[2] + a[4] * b[1],
            a[2] * b[4] + a[3] * b[3] + a[4] * b[2],
            a[3] * b[4] + a[4] * b[3],
            a[4] * b[4],
            0>>]

\* a * k for a below 2^56 and 0 <= k < 2^14
BMulSmall[a \in Any, k \in Any] == Carry[<<a[1] * k, a[2] * k, a[3] * k, a[4] * k, 0, 0, 0, 0>>]

BShl == Call("BShl")

\* x * 2^n, below 2^112
BShlDef[x \in Any, n \in Any] ==
    List[[i \in 1..8 |->
            (Limb[x, i - (n \div 14)] % Pow2[14 - (n % 14)]) * Pow2[n % 14]
            + (Limb[x, i - (n \div 14) - 1] \div Pow2[14 - (n % 14)])]]

BShr == Call("BShr")

\* x \div 2^n
BShrDef[x \in Any, n \in Any] ==
    List[[i \in 1..8 |->
            (Limb[x, i + (n \div 14)] \div Pow2[n % 14])
            + (Limb[x, i + (n \div 14) + 1] % Pow2[n % 14]) * Pow2[14 - (n % 14)]]]

\* -1, 0, 1 as x < y, x = y, x > y, from digit i down
BCmpFrom[x \in Any, y \in Any, i \in Any] ==
    IF i = 0 THEN 0
    ELSE IF x[i] < y[i] THEN -1
    ELSE IF x[i] > y[i] THEN 1
    ELSE BCmpFrom[x, y, i - 1]

BCmp[x \in Any, y \in Any] == BCmpFrom[x, y, Len(x)]

\* the highest digit of x that is not zero, 0 for x = 0
TopLimb[x \in Any] ==
    IF x[8] # 0 THEN 8 ELSE IF x[7] # 0 THEN 7 ELSE IF x[6] # 0 THEN 6
    ELSE IF x[5] # 0 THEN 5 ELSE IF x[4] # 0 THEN 4 ELSE IF x[3] # 0 THEN 3
    ELSE IF x[2] # 0 THEN 2 ELSE IF x[1] # 0 THEN 1 ELSE 0

\* the number of bits of a digit v
DigitBitLen[v \in Any] ==
    IF v >= 128
    THEN (IF v >= 2048
          THEN (IF v >= 8192 THEN 14 ELSE IF v >= 4096 THEN 13 ELSE 12)
          ELSE (IF v >= 512 THEN (IF v >= 1024 THEN 11 ELSE 10)
                ELSE IF v >= 256 THEN 9 ELSE 8))
    ELSE (IF v >= 8
          THEN (IF v >= 32 THEN (IF v >= 64 THEN 7 ELSE 6)
                ELSE IF v >= 16 THEN 5 ELSE 4)
          ELSE (IF v >= 2 THEN (IF v >= 4 THEN 3 ELSE 2) ELSE v))

BBitLen[x \in Any] ==
    IF TopLimb[x] = 0 THEN 0
    ELSE 14 * (TopLimb[x] - 1) + DigitBitLen[x[TopLimb[x]]]

\* bit i of x, bit 0 the lowest
BBit[x \in Any, i \in Any] == (Limb[x, (i \div 14) + 1] \div Pow2[i % 14]) % 2

\* the lowest n bits of x are all zero
BLowZero[x \in Any, n \in Any] ==
    /\ \A i \in 1..Min2[n \div 14, Len(x)] : x[i] = 0
    /\ Limb[x, (n \div 14) + 1] % Pow2[n % 14] = 0

Low4[x \in Any] == <<x[1], x[2], x[3], x[4]>>

Wide[a \in Any] == <<a[1], a[2], a[3], a[4], 0, 0, 0, 0>>

(***************************************************************************)
(* IEEE 754 binary64 values: sign s, and magnitude m * 2^e with m of       *)
(* exactly 53 bits in four digits, or m = 0 (e = 0) for zero.  Infinities, *)
(* NaN and subnormal numbers do not occur in the program's value range.    *)
(***************************************************************************)
Float[s \in Any, m \in Any, e \in Any] == [s |-> s, m |-> m, e |-> e]

ZeroDigits == <<0, 0, 0, 0>>

Zero == Float[0, ZeroDigits, 0]

IsZero[a \in Any] == a.m[4] = 0

\* q or q + 1 of 53 bits with the exponent e; q + 1 may be 2^53
FRoundUp[s \in Any, q \in Any, up \in Any, e \in Any] ==
    IF ~up THEN Float[s, Low4[q], e]
    ELSE IF q[1] = Base - 1 /\ q[2] = Base - 1 /\ q[3] = Base - 1 /\ q[4] = 2047
    THEN Float[s, <<0, 0, 0, 1024>>, e + 1]
    ELSE Float[s, Low4[Carry[<<q[1] + 1, q[2], q[3], q[4], 0, 0, 0, 0>>]], e]

\* the float nearest to (-1)^s * (x + t) * 2^e, ties to even, where
\* 0 < t < 1 when sticky and t = 0 otherwise
FPackLen[s \in Any, x \in Any, e \in Any, sticky \in Any, len \in Any] ==
    IF len = 0 THEN Float[s, ZeroDigits, 0]
    ELSE IF len <= 53 THEN Float[s, Low4[BShl[x, 53 - len]], e - (53 - len)]
    ELSE FRoundUp[s, BShr[x, len - 53],
                  /\ BBit[x, len - 54] = 1
                  /\ \/ sticky
                     \/ ~BLowZero[x, len - 54]
                     \/ BBit[x, len - 53] = 1,
                  e + (len - 53)]

FPack == Call("FPack")

FPackDef[s \in Any, x \in Any, e \in Any, sticky \in Any] == FPackLen[s, x, e, sticky, BBitLen[x]]

RInt == Call("RInt")

\* float(n) for an int n
RIntDef[n \in Any] ==
    FPack[IF n < 0 THEN 1 ELSE 0,
          <<Abs[n] % Base, (Abs[n] \div Base) % Base, Abs[n] \div (Base * Base),
            0, 0, 0, 0, 0>>, 0, FALSE]

One == RInt[1]

RNeg[a \in Any] == Float[1 - a.s, a.m, a.e]

RAbs[a \in Any] == Float[0, a.m, a.e]

\* -1, 0, 1 as |a| < |b|, |a| = |b|, |a| > |b|
MagCmp[a \in Any, b \in Any] ==
    IF IsZero[a] THEN (IF IsZero[b] THEN 0 ELSE -1)
    ELSE IF IsZero[b] THEN 1
    ELSE IF a.e < b.e THEN -1
    ELSE IF a.e > b.e THEN 1
    ELSE BCmpFrom[a.m, b.m, 4]

FCmp == Call("FCmp")

FCmpDef[a \in Any, b \in Any] ==
    IF IsZero[a] /\ IsZero[b] THEN 0
    ELSE IF a.s # b.s THEN (IF IsZero[a] THEN (IF b.s = 1 THEN 1 ELSE -1)
                            ELSE IF IsZero[b] THEN (IF a.s = 1 THEN -1 ELSE 1)
                            ELSE IF a.s = 1 THEN -1 ELSE 1)
    ELSE IF a.s = 0 THEN MagCmp[a, b] ELSE MagCmp[b, a]

RLt[a \in Any, b \in Any] == FCmp[a, b] < 0

RLe[a \in Any, b \in Any] == FCmp[a, b] <= 0

REq[a \in Any, b \in Any] == FCmp[a, b] = 0

\* |a| + |b| or |a| - |b| >= 0 with the sign s, both of the exponent e
FAddDigits[s \in Any, ma \in Any, mb \in Any, same \in Any, e \in Any] ==
    IF same THEN FPack[s, BAdd[ma, mb], e, FALSE]
    ELSE FPack[s, BSub[ma, mb], e, FALSE]

RAdd == Call("RAdd")

\* a + b: a summand below 2^-56 of the other one does not change it
RAddDef[a \in Any, b \in Any] ==
    IF IsZero[a]
    THEN (IF IsZero[b] THEN Float[IF a.s = 1 /\ b.s = 1 THEN 1 ELSE 0, ZeroDigits, 0]
          ELSE b)
    ELSE IF IsZero[b] THEN a
    ELSE IF a.e - b.e > 55 THEN a
    ELSE IF b.e - a.e > 55 THEN b
    ELSE IF a.s # b.s /\ MagCmp[a, b] = 0 THEN Zero
    ELSE IF MagCmp[a, b] >= 0
    THEN FAddDigits[a.s, BShl[a.m, a.e - Min2[a.e, b.e]],
                    BShl[b.m, b.e - Min2[a.e, b.e]], a.s = b.s, Min2[a.e, b.e]]
    ELSE FAddDigits[b.s, BShl[b.m, b.e - Min2[a.e, b.e]],
                    BShl[a.m, a.e - Min2[a.e, b.e]], a.s = b.s, Min2[a.e, b.e]]

RSub[a \in Any, b \in Any] == RAdd[a, RNeg[b]]

RMul == Call("RMul")

RMulDef[a \in Any, b \in Any] ==
    IF IsZero[a] \/ IsZero[b] THEN Float[(a.s + b.s) % 2, ZeroDigits, 0]
    ELSE FPack[(a.s + b.s) % 2, BMul[a.m, b.m], a.e + b.e, FALSE]

\* the largest q in {guess, guess - 1, guess - 2} with q * d <= num
BDigitDown[num \in Any, d \in Any, guess \in Any] ==
    IF BCmp[BMulSmall[d, guess], num] <= 0 THEN guess
    ELSE IF BCmp[BMulSmall[d, guess - 1], num] <= 0 THEN guess - 1
    ELSE guess - 2

\* num \div d for num < d * 2^14 and d of exactly 56 bits: the quotient of
\* the leading digits is at most 2 above it
BDigit[num \in Any, d \in Any] ==
    BDigitDown[num, d, Min2[(num[5] * Base + num[4]) \div d[4], Base - 1]]

\* the remainder num - d * digit and the digit before the digits q
BDivResult[q \in Any, num \in Any, d \in Any, digit \in Any] ==
    [q |-> <<digit>> \o q, r |-> Low4[BSub[num, BMulSmall[d, digit]]]]

\* one more digit of the quotient of r * 2^(14 * n) by d: prev is the
\* quotient and the remainder so far
BDivStep[prev \in Any, d \in Any] ==
    IF prev.r = ZeroDigits THEN [q |-> <<0>> \o prev.q, r |-> ZeroDigits]
    ELSE BDivResult[prev.q, <<0, prev.r[1], prev.r[2], prev.r[3], prev.r[4], 0, 0, 0>>,
                    d, BDigit[<<0, prev.r[1], prev.r[2], prev.r[3], prev.r[4], 0, 0, 0>>, d]]

\* quotient (five digits) and remainder of a * 2^56 by d, for a and d of
\* exactly 56 bits
BDivDigits[a \in Any, d \in Any] ==
    BDivStep[BDivStep[BDivStep[BDivStep[
        IF BCmpFrom[a, d, 4] >= 0
        THEN [q |-> <<1>>, r |-> Low4[BSub[Wide[a], Wide[d]]]]
        ELSE [q |-> <<0>>, r |-> a], d], d], d], d]

FDivPack[s \in Any, quot \in Any, e \in Any] ==
    FPack[s, quot.q \o <<0, 0, 0>>, e, quot.r # ZeroDigits]

RDiv == Call("RDiv")

\* a / b for b # 0
RDivDef[a \in Any, b \in Any] ==
    IF IsZero[a] THEN Float[(a.s + b.s) % 2, ZeroDigits, 0]
    ELSE FDivPack[(a.s + b.s) % 2,
                  BDivDigits[Low4[BShl[a.m, 3]], Low4[BShl[b.m, 3]]],
                  a.e - b.e - 56]

\* the literal n/d, as in 0.3 == R(3, 10)
R[n \in Any, d \in Any] == RDiv[RInt[n], RInt[d]]

RMin[a \in Any, b \in Any] == IF RLt[b, a] THEN b ELSE a

RMax[a \in Any, b \in Any] == IF RLt[a, b] THEN b ELSE a

PowersOfTen == <<1, 10, 100, 1000, 10000>>

\* 10^n for n in 0..4
Pow10[n \in Any] == PowersOfTen[n + 1]

BRoundShift == Call("BRoundShift")

\* x \div 2^n rounded to the nearest integer, ties to even
BRoundShiftDef[x \in Any, n \in Any] ==
    IF /\ BBit[x, n - 1] = 1
       /\ (~BLowZero[x, n - 1] \/ BBit[x, n] = 1)
    THEN BAdd[BShr[x, n], <<1, 0, 0, 0, 0, 0, 0, 0>>]
    ELSE BShr[x, n]

PyRound == Call("PyRound")

\* round(x, ndigits) for ndigits in 0..4: the float nearest to the decimal
\* number of ndigits digits nearest to x, ties to even
PyRoundDef[x \in Any, ndigits \in Any] ==
    IF IsZero[x] \/ x.e >= 0 THEN x
    ELSE IF 0 - x.e > 70 THEN Float[x.s, ZeroDigits, 0]
    ELSE IF BRoundShift[BMulSmall[x.m, Pow10[ndigits]], 0 - x.e] = Wide[ZeroDigits]
    THEN Float[x.s, ZeroDigits, 0]
    ELSE RDiv[FPack[x.s, BRoundShift[BMulSmall[x.m, Pow10[ndigits]], 0 - x.e],
                    0, FALSE],
              RInt[Pow10[ndigits]]]

\* numpy.rint(x): the nearest whole number, ties to even
Rint[x \in Any] ==
    IF IsZero[x] \/ x.e >= 0 THEN x
    ELSE IF 0 - x.e > 54 THEN Float[x.s, ZeroDigits, 0]
    ELSE IF BRoundShift[Wide[x.m], 0 - x.e] = Wide[ZeroDigits]
    THEN Float[x.s, ZeroDigits, 0]
    ELSE FPack[x.s, BRoundShift[Wide[x.m], 0 - x.e], 0, FALSE]

\* round(x, decimals) of a numpy.float64 x: multiply by 10^decimals,
\* rint, divide
np_round[x \in Any, decimals \in Any] ==
    RDiv[Rint[RMul[x, RInt[Pow10[decimals]]]], RInt[Pow10[decimals]]]

\* math.floor(x) for |x| < 2^31
RFloor[x \in Any] ==
    IF IsZero[x] THEN 0
    ELSE IF x.e >= 0
    THEN (IF x.s = 1 THEN -1 ELSE 1)
         * (BShl[x.m, x.e][1] + Base * BShl[x.m, x.e][2]
            + Base * Base * BShl[x.m, x.e][3])
    ELSE IF 0 - x.e > 53 THEN (IF x.s = 1 THEN -1 ELSE 0)
    ELSE LET whole == BShr[x.m, 0 - x.e][1] + Base * BShr[x.m, 0 - x.e][2]
                      + Base * Base * BShr[x.m, 0 - x.e][3]
         IN IF x.s = 0 THEN whole
            ELSE IF BLowZero[x.m, 0 - x.e] THEN 0 - whole ELSE 0 - whole - 1

RSum == Call("RSum")

\* sum(s), added from left to right
RSumDef[s \in Any] ==
    IF s = <<>> THEN Zero
    ELSE RAdd[RSum[SubSeq(s, 1, Len(s) - 1)], s[Len(s)]]

\* one step of Newton's iteration for the square root of f
SqrtStep[f \in Any, y \in Any] == RMul[RDiv[One, RInt[2]], RAdd[y, RDiv[f, y]]]

\* the integer square root of num, from an estimate root that is a few
\* units off
SqrtExact[num \in Any, root \in Any] ==
    IF BCmp[BMul[root, root], num] > 0
    THEN SqrtExact[num, BSub[root, <<1, 0, 0, 0, 0, 0, 0, 0>>]]
    ELSE IF BCmp[BMul[BAdd[root, <<1, 0, 0, 0, 0, 0, 0, 0>>],
                      BAdd[root, <<1, 0, 0, 0, 0, 0, 0, 0>>]], num] <= 0
    THEN SqrtExact[num, BAdd[root, <<1, 0, 0, 0, 0, 0, 0, 0>>]]
    ELSE root

\* n more steps of Newton's iteration from the estimate y
SqrtNewton[f \in Any, y \in Any, n \in Any] ==
    IF IsZero[y] \/ n = 0 THEN y ELSE SqrtNewton[f, SqrtStep[f, y], n - 1]

\* the 54 bits of the integer square root of num = f * 2^54, for a float
\* f in [2^52, 2^54): six steps from 1.5 * 2^26 give all the bits but
\* the last ones
SqrtEstimate[y \in Any] == BShl[y.m, y.e + 27]

ISqrt[num \in Any, f \in Any] == SqrtExact[num, SqrtEstimate[SqrtNewton[f, RInt[100663296], 6]]]

\* the root of 54 bits and whether it is inexact, rounded to 53 bits
FSqrtPack[root \in Any, num \in Any, e \in Any] ==
    FPack[0, root, e, BCmp[BMul[root, root], num] # 0]

\* numpy.sqrt(x) for x >= 0, correctly rounded: x = num * 2^(x.e - k) with
\* k = 54 + x.e % 2, so that the exponent left is even
FSqrt[x \in Any] ==
    IF IsZero[x] THEN x
    ELSE FSqrtPack[ISqrt[BShl[x.m, 54 + (x.e % 2)], Float[0, x.m, x.e % 2]],
                   BShl[x.m, 54 + (x.e % 2)],
                   (x.e - 54 - (x.e % 2)) \div 2]

\* a[i] + a[i + 1] + .. added to res from left to right
AddFrom[res \in Any, a \in Any, i \in Any] ==
    IF i > Len(a) THEN res ELSE AddFrom[RAdd[res, a[i]], a, i + 1]

\* the sum of a[j], a[j + 8], .. over the first blocks blocks of eight
LaneSum[a \in Any, j \in Any, blocks \in Any] ==
    IF blocks = 1 THEN a[j]
    ELSE RAdd[LaneSum[a, j, blocks - 1], a[8 * (blocks - 1) + j]]

np_sum == Call("np_sum")

\* numpy's pairwise sum of up to 128 values: from left to right below
\* eight values, and in eight lanes from there on
np_sumDef[a \in Any] ==
    IF Len(a) < 8 THEN AddFrom[Zero, a, 1]
    ELSE LET blocks == Len(a) \div 8
             r == List[[j \in 1..8 |-> LaneSum[a, j, blocks]]]
             res == RAdd[RAdd[RAdd[r[1], r[2]], RAdd[r[3], r[4]]],
                         RAdd[RAdd[r[5], r[6]], RAdd[r[7], r[8]]]]
         IN AddFrom[res, a, 8 * blocks + 1]

\* numpy.mean(a)
np_mean[a \in Any] == RDiv[np_sum[a], RInt[Len(a)]]

np_std == Call("np_std")

\* numpy.std(a): the root of the mean of the squared distances to the mean
np_stdDef[a \in Any] ==
    LET arrmean == np_mean[a]
        x == List[[i \in 1..Len(a) |->
                      RMul[RSub[a[i], arrmean], RSub[a[i], arrmean]]]]
    IN FSqrt[RDiv[np_sum[x], RInt[Len(a)]]]

(***************************************************************************)
(* Python list helpers                                                     *)
(***************************************************************************)
\* s[a:b] for 0 <= a, b
PySlice(s, a, b) == SubSeq(s, a + 1, Min2[b, Len(s)])

\* s[-k:] for k >= 1
PyLast(s, k) == SubSeq(s, Max2[0, Len(s) - k] + 1, Len(s))

\* [f(x) for x in s]
SeqMap(Op(_), s) == List[[i \in 1..Len(s) |-> Op(s[i])]]

SeqRange(s) == {s[i] : i \in 1..Len(s)}

vars == <<pc, sector_results, sector_rankings, stock_recommendations,
          alloc_args, portfolio_allocation, final_recommendations,
          news_args, weighted_combined, self_weights, channel_args,
          combined_result, call_args, call_result>>

callVars == <<call_args, call_result>>

newsVars == <<news_args, weighted_combined>>

fusionVars == <<self_weights, channel_args, combined_result>>

rankVars == <<sector_results, sector_rankings>>

allocVars == <<stock_recommendations, alloc_args, portfolio_allocation,
               final_recommendations>>

NoCall == "no_call"

(***************************************************************************)
(* SectorSentimentAnalyzer._rank_sectors                                   *)
(***************************************************************************)
\* keys of SECTOR_MAPPINGS in definition order
SECTOR_MAPPINGS ==
    <<"technology", "healthcare", "financial", "energy",
      "consumer_discretionary", "consumer_staples", "industrials",
      "materials", "utilities", "real_estate", "communication">>

GeneralMarket == "general_market"

\* SECTOR_MAPPINGS[sector]['etf']
SECTOR_ETFS ==
    [technology |-> "XLK", healthcare |-> "XLV", financial |-> "XLF",
     energy |-> "XLE", consumer_discretionary |-> "XLY",
     consumer_staples |-> "XLP", industrials |-> "XLI", materials |-> "XLB",
     utilities |-> "XLU", real_estate |-> "XLRE", communication |-> "XLC"]

\* the empty dict {} and the empty list []
EmptyDict == <<>>

HasKey(d, k) == k \in DOMAIN d

\* d.get(k, default)
Get(d, k, default) == IF k \in DOMAIN d THEN d[k] ELSE default

\* sentiment_score * confidence, the sort key
SortKey(e) == RMul[e.sentiment_score, e.confidence]

\* sorted(..., key, reverse=True): descending and stable
\* a sort that compares the raw sentiment_score instead of the key
RECURSIVE InsertDescByScore(_, _)
InsertDescByScore(sorted, e) ==
    IF sorted = <<>> THEN <<e>>
    ELSE IF RLt[sorted[1].sentiment_score, e.sentiment_score]
         THEN <<e>> \o sorted
         ELSE <<sorted[1]>> \o InsertDescByScore(Tail(sorted), e)

RECURSIVE InsertDesc(_, _)
InsertDesc(sorted, e) ==
    IF sorted = <<>> THEN <<e>>
    ELSE IF RLt[SortKey(sorted[1]), SortKey(e)]
         THEN <<e>> \o sorted
         ELSE <<sorted[1]>> \o InsertDesc(Tail(sorted), e)

RECURSIVE SortedDesc(_)
SortedDesc(s) ==
    IF s = <<>> THEN <<>>
    ELSE InsertDesc(SortedDesc(SubSeq(s, 1, Len(s) - 1)), s[Len(s)])

_get_sector_recommendation(sentiment_score, confidence) ==
    IF RLt[confidence, R[3, 10]] THEN "HOLD - Low Confidence"
    ELSE IF RLt[R[1, 5], sentiment_score] THEN "BUY - Positive Sentiment"
    ELSE IF RLt[R[1, 20], sentiment_score] THEN "MODERATE BUY"
    ELSE IF RLt[sentiment_score, R[-1, 5]] THEN "SELL - Negative Sentiment"
    ELSE IF RLt[sentiment_score, R[-1, 20]] THEN "MODERATE SELL"
    ELSE "HOLD - Neutral"

\* a filter that asks for more than two articles
ValidSectorStrict(e) == e.article_count > 2 /\ e.sector # GeneralMarket

\* the filter of the dict comprehension: enough articles, not the bucket
ValidSector(e) == e.article_count >= 2 /\ e.sector # GeneralMarket

valid_sectors(results) == SelectSeq(results, ValidSector)

Rankings(results) == Call("Rankings")[results]

RankingsDef(results) ==
    LET sorted_sectors == SortedDesc(valid_sectors(results))
    IN List[[i \in 1..Len(sorted_sectors) |->
          [rank            |-> i,
           sector          |-> sorted_sectors[i].sector,
           sentiment_score |-> sorted_sectors[i].sentiment_score,
           confidence      |-> sorted_sectors[i].confidence,
           article_count   |-> sorted_sectors[i].article_count,
           etf_ticker      |-> Get(sorted_sectors[i], "etf_ticker", "N/A"),
           recommendation  |-> _get_sector_recommendation(
                                   sorted_sectors[i].sentiment_score,
                                   sorted_sectors[i].confidence)]]]

IsOverweight(r) == RLt[R[1, 10], r.sentiment_score]

IsUnderweight(r) == RLt[r.sentiment_score, R[-1, 10]]

SectorOf(r) == r.sector

Recommendations(rankings) ==
    LET num_sectors  == Len(rankings)
        top_third    == Max2[1, num_sectors \div 3]
        bottom_third == Max2[1, num_sectors \div 3]
    IN [overweight  |-> SeqMap(SectorOf,
                          SelectSeq(PySlice(rankings, 0, top_third), IsOverweight)),
        neutral     |-> SeqMap(SectorOf,
                          PySlice(rankings, top_third, num_sectors - bottom_third)),
        underweight |-> SeqMap(SectorOf,
                          SelectSeq(PyLast(rankings, bottom_third), IsUnderweight))]

_rank_sectors(results) ==
    IF valid_sectors(results) = <<>>
    THEN [rankings        |-> <<>>,
          recommendations |-> [overweight |-> <<>>, neutral |-> <<>>,
                               underweight |-> <<>>],
          top_sectors     |-> <<>>,
          bottom_sectors  |-> <<>>]
    ELSE LET rankings == Rankings(results)
         IN [rankings        |-> rankings,
             recommendations |-> Recommendations(rankings),
             top_sectors     |-> PySlice(rankings, 0, 3),
             bottom_sectors  |-> IF Len(rankings) >= 3
                                 THEN PyLast(rankings, 3) ELSE <<>>]

(***************************************************************************)
(* HybridRecommendationEngine                                              *)
(***************************************************************************)
(***************************************************************************)
(* Return value of a failed analyze_comprehensive_news_sentiment_advanced   *)
(***************************************************************************)
\* the result dict of an analysis that failed
FailedNewsResult ==
    [error         |-> "failed",
     ticker        |-> "ticker",
     analysis_type |-> "advanced_comprehensive",
     status        |-> "failed"]

\* SECTOR_MAPPINGS[sector]['tickers']
SECTOR_TICKERS ==
    [technology |-> <<"AAPL", "MSFT", "GOOGL", "AMZN", "META", "TSLA", "NVDA", "CRM", "ORCL", "ADBE">>,
     healthcare |-> <<"JNJ", "PFE", "UNH", "MRK", "ABBV", "TMO", "ABT", "LLY", "BMY", "AMGN">>,
     financial |-> <<"JPM", "BAC", "WFC", "GS", "MS", "C", "AXP", "BLK", "SCHW", "USB">>,
     energy |-> <<"XOM", "CVX", "COP", "EOG", "SLB", "PXD", "MPC", "VLO", "PSX", "HES">>,
     consumer_discretionary |-> <<"AMZN", "TSLA", "HD", "MCD", "NKE", "SBUX", "TJX", "LOW", "BKNG", "TGT">>,
     consumer_staples |-> <<"PG", "KO", "PEP", "WMT", "COST", "CL", "KMB", "GIS", "K", "HSY">>,
     industrials |-> <<"BA", "CAT", "GE", "HON", "MMM", "UPS", "RTX", "LMT", "DE", "UNP">>,
     materials |-> <<"LIN", "APD", "SHW", "FCX", "NEM", "ECL", "DD", "DOW", "PPG", "IFF">>,
     utilities |-> <<"NEE", "DUK", "SO", "D", "EXC", "AEP", "XEL", "SRE", "PEG", "ED">>,
     real_estate |-> <<"AMT", "PLD", "CCI", "EQIX", "WELL", "DLR", "PSA", "O", "CBRE", "AVB">>,
     communication |-> <<"META", "GOOGL", "NFLX", "DIS", "CMCSA", "VZ", "T", "CHTR", "TMUS", "ATVI">>]

RiskTolerances == {"conservative", "moderate", "aggressive"}

\* filters that ask for more than the threshold
RiskFilterStrict(risk_tolerance, x) ==
    IF risk_tolerance = "conservative"
    THEN RLt[R[1, 2], x.confidence] /\ RLt[Zero, x.sentiment_score]
    ELSE IF risk_tolerance = "aggressive"
    THEN RLt[R[1, 5], x.confidence]
    ELSE RLt[R[3, 10], x.confidence] /\ RLt[R[-1, 10], x.sentiment_score]

\* risk_filters.get(risk_tolerance, risk_filters['moderate'])
RiskFilter(risk_tolerance, x) ==
    IF risk_tolerance = "conservative"
    THEN RLe[R[1, 2], x.confidence] /\ RLe[Zero, x.sentiment_score]
    ELSE IF risk_tolerance = "aggressive"
    THEN RLe[R[1, 5], x.confidence]
    ELSE RLe[R[3, 10], x.confidence] /\ RLe[R[-1, 10], x.sentiment_score]

_select_top_sectors(rankings_dict, max_sectors, risk_tolerance) ==
    LET rankings == Get(rankings_dict, "rankings", <<>>)
        Passes(x) == RiskFilter(risk_tolerance, x)
    IN IF rankings = <<>> THEN <<>>
       ELSE PySlice(SelectSeq(rankings, Passes), 0, max_sectors)

StockKey(x) == RMul[x.sentiment_score, x.confidence]

RECURSIVE InsertStockDesc(_, _)
InsertStockDesc(sorted, e) ==
    IF sorted = <<>> THEN <<e>>
    ELSE IF RLt[StockKey(sorted[1]), StockKey(e)]
         THEN <<e>> \o sorted
         ELSE <<sorted[1]>> \o InsertStockDesc(Tail(sorted), e)

RECURSIVE SortStocksDesc(_)
SortStocksDesc(s) ==
    IF s = <<>> THEN <<>>
    ELSE InsertStockDesc(SortStocksDesc(SubSeq(s, 1, Len(s) - 1)), s[Len(s)])

\* the stock_score dict built from one analysis result
StockScore(ticker, analysis) ==
    LET sentiment_data == Get(analysis, "sentiment_analysis", EmptyDict)
    IN [ticker            |-> ticker,
        sentiment_score   |-> Get(sentiment_data, "combined_sentiment_score", Zero),
        sentiment_label   |-> Get(sentiment_data, "sentiment_label", "Neutral"),
        confidence        |-> Get(Get(sentiment_data, "weights", EmptyDict),
                                  "stock_specific_weight", R[1, 2]),
        articles_analyzed |->
            Get(Get(Get(sentiment_data, "component_analysis", EmptyDict),
                    "stock_specific", EmptyDict), "article_count", 0),
        analysis_timestamp |->
            Get(Get(analysis, "analysis_metadata", EmptyDict), "timestamp", "")]

\* news[ticker] is what analyze_comprehensive_news_sentiment_advanced(ticker)
\* returns
RECURSIVE StockAnalyses(_, _, _)
StockAnalyses(tickers, news, i) ==
    IF i > Len(tickers) THEN <<>>
    ELSE (IF HasKey(news[tickers[i]], "error") THEN <<>>
          ELSE << StockScore(tickers[i], news[tickers[i]]) >>)
         \o StockAnalyses(tickers, news, i + 1)

_analyze_sector_stocks(tickers, max_stocks, news) ==
    PySlice(SortStocksDesc(
                StockAnalyses(PySlice(tickers, 0, max_stocks * 2), news, 1)),
            0, max_stocks)

\* risk_weights.get(risk_tolerance, risk_weights['moderate'])
\* presets in which an unrecognized risk tolerance gets the conservative one
RiskWeightsConservativeDefault(risk_tolerance) ==
    IF risk_tolerance = "moderate"
    THEN [equal_weight |-> R[3, 5], performance_weight |-> R[2, 5]]
    ELSE IF risk_tolerance = "aggressive"
    THEN [equal_weight |-> R[2, 5], performance_weight |-> R[3, 5]]
    ELSE [equal_weight |-> R[4, 5], performance_weight |-> R[1, 5]]

RiskWeights(risk_tolerance) ==
    IF risk_tolerance = "conservative"
    THEN [equal_weight |-> R[4, 5], performance_weight |-> R[1, 5]]
    ELSE IF risk_tolerance = "aggressive"
    THEN [equal_weight |-> R[2, 5], performance_weight |-> R[3, 5]]
    ELSE [equal_weight |-> R[3, 5], performance_weight |-> R[2, 5]]

_get_stock_recommendation(sentiment_score, confidence) ==
    IF RLt[confidence, R[3, 10]] THEN "HOLD - Monitor"
    ELSE IF RLt[R[1, 5], sentiment_score] THEN "STRONG BUY"
    ELSE IF RLt[R[1, 20], sentiment_score] THEN "BUY"
    ELSE IF RLt[sentiment_score, R[-1, 5]] THEN "STRONG SELL"
    ELSE IF RLt[sentiment_score, R[-1, 20]] THEN "SELL"
    ELSE "HOLD"

\* a blend whose performance part is not divided by the count
BlendWeightUndivided(score, confidence, count, weights) ==
    RAdd[RMul[RDiv[One, RInt[count]], weights.equal_weight],
         RMul[RMul[score, confidence], weights.performance_weight]]

\* base * equal_weight + performance * performance_weight / count
BlendWeight(score, confidence, count, weights) ==
    RAdd[RMul[RDiv[One, RInt[count]], weights.equal_weight],
         RDiv[RMul[RMul[score, confidence], weights.performance_weight],
              RInt[count]]]

StockWeight(stock, stocks, weights) ==
    BlendWeight(stock.sentiment_score, stock.confidence, Len(stocks), weights)

StockAllocation(stock, stocks, sector_allocation, weights, portfolio_size) ==
    LET stock_allocation ==
            RMul[sector_allocation, StockWeight(stock, stocks, weights)]
    IN [ticker                |-> stock.ticker,
        allocation_amount     |-> stock_allocation,
        allocation_percentage |-> RMul[RDiv[stock_allocation, portfolio_size],
                                       RInt[100]],
        sentiment_score       |-> stock.sentiment_score,
        confidence            |-> stock.confidence,
        recommendation        |-> _get_stock_recommendation(
                                      stock.sentiment_score, stock.confidence)]

SectorWeight(sector_info, total_sectors, weights) ==
    BlendWeight(sector_info.sentiment_score, sector_info.confidence,
                total_sectors, weights)

SectorAllocation(data, total_sectors, weights, portfolio_size) == Call("SectorAllocation")[data, total_sectors, weights, portfolio_size]

SectorAllocationDef(data, total_sectors, weights, portfolio_size) ==
    LET sector_allocation ==
            RMul[portfolio_size,
                 SectorWeight(data.sector_info, total_sectors, weights)]
        stocks == data.recommended_stocks
    IN [sector            |-> data.sector,
        sector_allocation |-> sector_allocation,
        sector_percentage |-> RMul[RDiv[sector_allocation, portfolio_size],
                                   RInt[100]],
        sector_sentiment  |-> data.sector_info.sentiment_score,
        stocks            |-> List[[j \in 1..Len(stocks) |->
                                 StockAllocation(stocks[j], stocks,
                                     sector_allocation, weights, portfolio_size)]]]

\* the dict sector -> allocation, as the list of its values in insertion order
_calculate_portfolio_allocation(recs, portfolio_size, risk_tolerance) ==
    IF recs = <<>> THEN EmptyDict
    ELSE List[[i \in 1..Len(recs) |->
            SectorAllocation(recs[i], Len(recs), RiskWeights(risk_tolerance),
                             portfolio_size)]]

RECURSIVE Flatten(_)
Flatten(ss) == IF ss = <<>> THEN <<>> ELSE ss[1] \o Flatten(Tail(ss))

StocksOf(sector_data) == sector_data.stocks

AllStocks(allocation) == Call("AllStocks")[allocation]

AllStocksDef(allocation) == Flatten(SeqMap(StocksOf, allocation))

RECURSIVE RMaxSeq(_)
RMaxSeq(s) == IF Len(s) = 1 THEN s[1] ELSE RMax[s[1], RMaxSeq(Tail(s))]

ScoreOf(x) == x.sentiment_score

Mean[s \in Any] == RDiv[RSum[s], RInt[Len(s)]]

\* a tier that takes a concentration above 40 for a medium risk
RiskLevelCapped(sector_concentration, total_positions, sentiment_scores) ==
    IF total_positions < 5 THEN "High"
    ELSE IF RLt[RInt[25], sector_concentration] THEN "Medium"
    ELSE "Low"

RiskLevel(sector_concentration, total_positions, sentiment_scores) ==
    LET sentiment_std == IF sentiment_scores # <<>>
                         THEN np_std[sentiment_scores] ELSE Zero
        std_above     == RLt[R[3, 10], sentiment_std]
    IN IF RLt[RInt[40], sector_concentration] \/ total_positions < 5
       THEN "High"
       ELSE IF RLt[RInt[25], sector_concentration] \/ std_above
       THEN "Medium"
       ELSE "Low"

_get_risk_recommendations(risk_level, concentration, positions) ==
    (IF risk_level = "High"
     THEN <<"Consider increasing diversification">>
          \o (IF RLt[RInt[40], concentration]
              THEN <<"Reduce sector concentration below 30%">> ELSE <<>>)
          \o (IF positions < 5
              THEN <<"Consider adding more positions to reduce single-stock risk">>
              ELSE <<>>)
     ELSE <<>>)
    \o (IF RLt[RInt[30], concentration]
        THEN <<"Monitor sector concentration risk">> ELSE <<>>)
    \o <<"Set stop-loss orders at 5-10% below entry points",
         "Review and rebalance portfolio monthly">>

SectorPercentageOf(sector_data) == sector_data.sector_percentage

_assess_portfolio_risk(allocation, risk_tolerance) ==
    IF allocation = EmptyDict THEN EmptyDict
    ELSE LET total_positions      == Len(AllStocks(allocation))
             sector_concentration ==
                 RMaxSeq(SeqMap(SectorPercentageOf, allocation))
             sentiment_scores     == SeqMap(ScoreOf, AllStocks(allocation))
             risk_level           == RiskLevel(sector_concentration,
                                               total_positions, sentiment_scores)
         IN [risk_level            |-> risk_level,
             diversification_score |->
                 RMin[RInt[100], RMul[R[total_positions, 15], RInt[100]]],
             sector_concentration  |-> PyRound[sector_concentration, 1],
             sentiment_consistency |->
                 IF sentiment_scores = <<>> THEN One
                 ELSE np_round[RSub[One, np_std[sentiment_scores]], 3],
             average_sentiment     |->
                 IF sentiment_scores = <<>> THEN Zero
                 ELSE np_round[np_mean[sentiment_scores], 3],
             total_positions       |-> total_positions,
             recommendations       |->
                 _get_risk_recommendations(risk_level, sector_concentration,
                                           total_positions)]

\* sort key (priority == 'High', amount), compared as a tuple
StepLess(a, b) ==
    LET ha == IF a.priority = "High" THEN 1 ELSE 0
        hb == IF b.priority = "High" THEN 1 ELSE 0
    IN ha < hb \/ (ha = hb /\ RLt[a.amount, b.amount])

RECURSIVE InsertStepDesc(_, _)
InsertStepDesc(sorted, e) ==
    IF sorted = <<>> THEN <<e>>
    ELSE IF StepLess(sorted[1], e)
         THEN <<e>> \o sorted
         ELSE <<sorted[1]>> \o InsertStepDesc(Tail(sorted), e)

RECURSIVE SortStepsDesc(_)
SortStepsDesc(s) ==
    IF s = <<>> THEN <<>>
    ELSE InsertStepDesc(SortStepsDesc(SubSeq(s, 1, Len(s) - 1)), s[Len(s)])

AmountOf(stock) == stock.allocation_amount

_create_execution_plan(allocation) ==
    LET stocks == AllStocks(allocation)
        steps  == List[[k \in 1..Len(stocks) |->
                     [step       |-> k,
                      action     |-> "BUY",
                      ticker     |-> stocks[k].ticker,
                      amount     |-> stocks[k].allocation_amount,
                      percentage |-> stocks[k].allocation_percentage,
                      priority   |-> IF RLt[R[1, 10], stocks[k].sentiment_score]
                                     THEN "High" ELSE "Medium"]]]
    IN [execution_steps       |-> SortStepsDesc(steps),
        total_investment      |-> RSum[SeqMap(AmountOf, stocks)],
        estimated_commissions |-> Len(steps) * 10]

RecommendedStocksOf(data) == data.recommended_stocks

\* two alerts per recommended stock and one sector-level alert
_generate_monitoring_alerts(recs) ==
    LET stocks == Flatten(SeqMap(RecommendedStocksOf, recs))
        StockAlerts(stock) ==
            << [ticker |-> stock.ticker, alert_type |-> "sentiment_change"],
               [ticker |-> stock.ticker, alert_type |-> "price_movement"] >>
    IN Flatten(SeqMap(StockAlerts, stocks))
       \o << [alert_type |-> "sector_rotation"] >>

\* the keys _display_recommendations subscripts; a missing one raises KeyError
DisplayRaises(recommendations) ==
    \/ ~HasKey(recommendations.risk_assessment, "risk_level")
    \/ ~HasKey(recommendations.risk_assessment, "diversification_score")
    \/ ~HasKey(recommendations.risk_assessment, "recommendations")

StockRecommendations(top_sectors, stocks_per_sector, news, i) == Call("StockRecommendations")[top_sectors, stocks_per_sector, news, i]

\* stock_recommendations built by the loop over top_sectors
StockRecommendationsDef(top_sectors, stocks_per_sector, news, i) ==
    IF i > Len(top_sectors) THEN <<>>
    ELSE LET sector         == top_sectors[i].sector
             sector_tickers == Get(SECTOR_TICKERS, sector, <<>>)
             sector_stocks  == _analyze_sector_stocks(
                                   PySlice(sector_tickers, 0, stocks_per_sector * 2),
                                   stocks_per_sector, news)
         IN (IF sector_tickers # <<>> /\ sector_stocks # <<>>
             THEN << [sector             |-> sector,
                      sector_info        |-> top_sectors[i],
                      recommended_stocks |-> sector_stocks] >>
             ELSE <<>>)
            \o StockRecommendations(top_sectors, stocks_per_sector, news, i + 1)

\* sector_analysis is the return value of analyze_sector_sentiment: a dict
\* with an 'error' key or one with 'sector_rankings'
generate_investment_recommendations(sector_analysis, portfolio_size, risk_tolerance, max_sectors, stocks_per_sector, news) ==
    IF HasKey(sector_analysis, "error")
    THEN [error |-> "Sector analysis failed: " \o sector_analysis.error]
    ELSE LET top_sectors == _select_top_sectors(sector_analysis.sector_rankings,
                                                max_sectors, risk_tolerance)
             recs        == StockRecommendations(top_sectors, stocks_per_sector,
                                                 news, 1)
             allocation  == _calculate_portfolio_allocation(
                                recs, portfolio_size, risk_tolerance)
             risk_metrics == _assess_portfolio_risk(allocation, risk_tolerance)
             result ==
                 [portfolio_summary |->
                      [total_value      |-> portfolio_size,
                       risk_tolerance   |-> risk_tolerance,
                       sectors_selected |-> Len(recs),
                       total_positions  |->
                           Len(Flatten(SeqMap(RecommendedStocksOf, recs)))],
                  sector_analysis      |-> sector_analysis.sector_rankings,
                  selected_sectors     |-> SeqMap(SectorOf, recs),
                  portfolio_allocation |-> allocation,
                  risk_assessment      |-> risk_metrics,
                  execution_plan       |-> _create_execution_plan(allocation),
                  monitoring_alerts    |-> _generate_monitoring_alerts(recs)]
         IN IF DisplayRaises(result)
            THEN [error |-> "'risk_level'"]
            ELSE result

(***************************************************************************)
(* news_sentiments: category scores and their weighted combination        *)
(***************************************************************************)
\* str.lower() on the labels the sentiment models emit
Lower(label) ==
    IF label = "POSITIVE" \/ label = "Positive" THEN "positive"
    ELSE IF label = "NEGATIVE" \/ label = "Negative" THEN "negative"
    ELSE IF label = "NEUTRAL" \/ label = "Neutral" THEN "neutral"
    ELSE label

\* Python's None where a model output {label, score} is expected
None == [label |-> "None", score |-> Zero]

\* signed score of one model output {label, score}; None counts as 0
SignedScore(sentiment) ==
    IF sentiment = None THEN Zero
    ELSE IF Lower(sentiment.label) = "positive" THEN sentiment.score
    ELSE IF Lower(sentiment.label) = "negative" THEN RNeg[sentiment.score]
    ELSE Zero

\* the combined analysis when it has the model output, else the headline's
ExtractScore(combined, headline_only) ==
    IF combined # None THEN SignedScore(combined)
    ELSE SignedScore(headline_only)

WeightedItem(item) == Call("WeightedItem")[item]

\* one entry of weighted_scores
WeightedItemDef(item) ==
    LET news_type        == item.news_classification.type
        class_confidence == item.news_classification.confidence
        finbert_score    == ExtractScore(item.combined_analysis.finbert_sentiment,
                                         item.headline_only.finbert_sentiment)
        general_score    == ExtractScore(item.combined_analysis.general_sentiment,
                                         item.headline_only.general_sentiment)
        weighted_score   ==
            IF news_type = "financial"
            THEN RAdd[RMul[R[4, 5], finbert_score], RMul[R[1, 5], general_score]]
            ELSE RAdd[RMul[R[2, 5], finbert_score], RMul[R[3, 5], general_score]]
    IN [score      |-> RMul[weighted_score, class_confidence],
        finbert    |-> finbert_score,
        general    |-> general_score,
        type       |-> news_type,
        confidence |-> class_confidence]

ItemScore(w) == w.score

ItemFinbert(w) == w.finbert

ItemGeneral(w) == w.general

IsFinancialType(w) == w.type = "financial"

calculate_sentiment_score(sentiments) ==
    IF sentiments = <<>>
    THEN [score |-> Zero, label |-> "neutral", confidence |-> Zero]
    ELSE LET weighted_scores == SeqMap(WeightedItem, sentiments)
             overall_score   == Mean[SeqMap(ItemScore, weighted_scores)]
             financial_count == Len(SelectSeq(weighted_scores, IsFinancialType))
             label == IF RLt[R[3, 20], overall_score] THEN "positive"
                      ELSE IF RLt[overall_score, R[-3, 20]] THEN "negative"
                      ELSE "neutral"
             confidence == IF label = "neutral"
                           THEN RSub[One, RAbs[overall_score]]
                           ELSE RMin[RAbs[overall_score], One]
         IN [score                  |-> overall_score,
             label                  |-> label,
             confidence             |-> RMin[confidence, One],
             finbert_avg            |-> Mean[SeqMap(ItemFinbert, weighted_scores)],
             general_avg            |-> Mean[SeqMap(ItemGeneral, weighted_scores)],
             financial_articles     |-> financial_count,
             non_financial_articles |-> Len(sentiments) - financial_count,
             total_articles         |-> Len(sentiments),
             analysis_method        |-> "adaptive_weighting"]

ClassConfidenceOf(item) == item.news_classification.confidence

ConfidenceAvg(sentiments) == Call("ConfidenceAvg")[sentiments]

\* sum of the items' classification confidence / max(len(items), 1)
ConfidenceAvgDef(sentiments) ==
    RDiv[RSum[SeqMap(ClassConfidenceOf, sentiments)],
         RInt[Max2[Len(sentiments), 1]]]

general_base_weight == R[35, 100]

stock_base_weight == R[65, 100]

confidence_factor == R[1, 5]

financial_boost == R[1, 10]

\* an adjustment that measures the base weight from 0.4
AdjustedWeightOffset(base_weight, confidence_avg) ==
    RSub[base_weight, R[2, 5]]

AdjustedWeight(base_weight, confidence_avg) == Call("AdjustedWeight")[base_weight, confidence_avg]

\* base * (1 + (confidence_avg - 0.5) * confidence_factor)
AdjustedWeightDef(base_weight, confidence_avg) ==
    RMul[base_weight,
         RAdd[One, RMul[RSub[confidence_avg, R[1, 2]], confidence_factor]]]

FinancialRatio(score) == Call("FinancialRatio")[score]

\* score.get('financial_articles', 0) / max(score.get('total_articles', 1), 1)
FinancialRatioDef(score) ==
    LET financial == IF HasKey(score, "financial_articles")
                     THEN score.financial_articles ELSE 0
        total     == IF HasKey(score, "total_articles")
                     THEN score.total_articles ELSE 1
    IN R[financial, Max2[total, 1]]

Boosted(weight, financial_ratio) == Call("Boosted")[weight, financial_ratio]

\* weight *= (1 + financial_boost) when more than 70% of the content is financial
BoostedDef(weight, financial_ratio) ==
    IF RLt[R[7, 10], financial_ratio]
    THEN RMul[weight, RAdd[One, financial_boost]]
    ELSE weight

\* a normalization that leaves the weight as it is
NotNormalized(weight, total_weight) == weight

\* weight / total_weight
Normalized(weight, total_weight) == RDiv[weight, total_weight]

calculate_weighted_combined_sentiment(general_score, stock_score, general_sentiments, stock_sentiments) ==
    LET general_confidence_avg  == ConfidenceAvg(general_sentiments)
        stock_confidence_avg    == ConfidenceAvg(stock_sentiments)
        general_adjusted_weight == AdjustedWeight(general_base_weight,
                                                  general_confidence_avg)
        stock_adjusted_weight   == AdjustedWeight(stock_base_weight,
                                                  stock_confidence_avg)
        total_adjusted          == RAdd[general_adjusted_weight,
                                        stock_adjusted_weight]
        general_financial_ratio == FinancialRatio(general_score)
        stock_financial_ratio   == FinancialRatio(stock_score)
        general_boosted == Boosted(Normalized(general_adjusted_weight,
                                              total_adjusted),
                                   general_financial_ratio)
        stock_boosted   == Boosted(Normalized(stock_adjusted_weight,
                                              total_adjusted),
                                   stock_financial_ratio)
        total_weight         == RAdd[general_boosted, stock_boosted]
        general_final_weight == Normalized(general_boosted, total_weight)
        stock_final_weight   == Normalized(stock_boosted, total_weight)
        weighted_score ==
            RAdd[RMul[general_final_weight, general_score.score],
                 RMul[stock_final_weight, stock_score.score]]
        weighted_confidence ==
            RAdd[RMul[general_final_weight, general_score.confidence],
                 RMul[stock_final_weight, stock_score.confidence]]
    IN [weighted_score |-> weighted_score,
        label          |-> IF RLt[R[3, 25], weighted_score] THEN "positive"
                           ELSE IF RLt[weighted_score, R[-3, 25]] THEN "negative"
                           ELSE "neutral",
        confidence     |-> weighted_confidence,
        weights_used   |->
            [general_market          |-> general_final_weight,
             stock_specific          |-> stock_final_weight,
             general_confidence      |-> general_confidence_avg,
             stock_confidence        |-> stock_confidence_avg,
             general_financial_ratio |-> general_financial_ratio,
             stock_financial_ratio   |-> stock_financial_ratio],
        methodology    |-> "confidence_and_financial_weighted"]

(***************************************************************************)
(* unified_sentiment: SentimentWeights and UnifiedSentimentAnalyzer        *)
(***************************************************************************)
ZeroDivisionError == [error |-> "ZeroDivisionError"]

\* the dataclass after __post_init__; a zero total raises
SentimentWeights(twitter, reddit, news) ==
    LET total == RAdd[RAdd[twitter, reddit], news]
    IN IF REq[total, One]
       THEN [twitter |-> twitter, reddit |-> reddit, news |-> news]
       ELSE IF IsZero[total] THEN ZeroDivisionError
       ELSE [twitter |-> RDiv[twitter, total],
             reddit  |-> RDiv[reddit, total],
             news    |-> RDiv[news, total]]

\* SentimentResult with the defaults of the dataclass
SentimentResult(source, overall_sentiment, score, confidence, articles_count, posts_count, tweets_count) ==
    [source            |-> source,
     overall_sentiment |-> overall_sentiment,
     score             |-> score,
     confidence        |-> confidence,
     articles_count    |-> articles_count,
     posts_count       |-> posts_count,
     tweets_count      |-> tweets_count]

\* the placeholder built when a channel has nothing or its analysis raised
NeutralResult(source) ==
    SentimentResult(source, "neutral", Zero, Zero, 0, 0, 0)

\* label by the +-0.1 thresholds
OverallSentiment(score) ==
    IF RLt[R[1, 10], score] THEN "positive"
    ELSE IF RLt[score, R[-1, 10]] THEN "negative"
    ELSE "neutral"

\* self.sentiment_mapping.get(label, 0.0)
sentiment_mapping(label) ==
    IF label \in {"positive", "POSITIVE"} THEN One
    ELSE IF label \in {"negative", "NEGATIVE"} THEN RNeg[One]
    ELSE Zero

\* sentiment value * score of one FinBERT output {label, score}
MappedScore(sentiment) ==
    RMul[sentiment_mapping(Lower(sentiment.label)), sentiment.score]

ModelScoreOf(sentiment) == sentiment.score

\* finbert_results is the list of the tweets' FinBERT outputs
_analyze_twitter_sentiment(finbert_results) ==
    IF finbert_results = <<>> THEN NeutralResult("twitter")
    ELSE LET tweet_count    == Len(finbert_results)
             avg_score      == RDiv[RSum[SeqMap(MappedScore, finbert_results)],
                                    RInt[tweet_count]]
             avg_confidence == RDiv[RSum[SeqMap(ModelScoreOf, finbert_results)],
                                    RInt[tweet_count]]
         IN SentimentResult("twitter", OverallSentiment(avg_score), avg_score,
                            avg_confidence, 0, 0, tweet_count)

\* posts weigh 2, comments 1
RedditWeight(result) == IF result.type = "post" THEN RInt[2] ELSE One

RedditWeightedScore(result) ==
    RMul[MappedScore(result.finbert_sentiment), RedditWeight(result)]

RedditScore(result) == result.finbert_sentiment.score

IsPost(result) == result.type = "post"

_analyze_reddit_sentiment(results) ==
    IF results = <<>> THEN NeutralResult("reddit")
    ELSE LET total_weight   == RSum[SeqMap(RedditWeight, results)]
             avg_score      == RDiv[RSum[SeqMap(RedditWeightedScore, results)],
                                    total_weight]
             avg_confidence == RDiv[RSum[SeqMap(RedditScore, results)],
                                    RInt[Len(results)]]
         IN SentimentResult("reddit", OverallSentiment(avg_score), avg_score,
                            avg_confidence, 0, Len(SelectSeq(results, IsPost)), 0)

\* result is what analyze_comprehensive_news_sentiment_advanced returned
_analyze_news_sentiment(result) ==
    IF HasKey(result, "error") THEN NeutralResult("news")
    ELSE LET combined_score ==
                 Get(Get(result, "combined_sentiment", EmptyDict), "score", Zero)
             confidence ==
                 Get(Get(result, "combined_sentiment", EmptyDict),
                     "confidence", Zero)
             total_articles ==
                 Get(Get(result, "general_market", EmptyDict),
                     "articles_analyzed", 0)
                 + Get(Get(result, "stock_specific", EmptyDict),
                       "articles_analyzed", 0)
         IN SentimentResult("news", OverallSentiment(combined_score),
                            combined_score, confidence, total_articles, 0, 0)

Channels == <<"twitter", "reddit", "news">>

\* the channel's term of total_weighted_score, 0 when it is not in the results
ScoreTerm(results, w, channel) ==
    IF channel \in DOMAIN results
    THEN RMul[results[channel].score, w[channel]] ELSE Zero

\* the channel's term of total_weighted_confidence
ConfidenceTerm(results, w, channel) ==
    IF channel \in DOMAIN results
    THEN RMul[results[channel].confidence, w[channel]] ELSE Zero

\* the channel's term of total_weight
WeightTerm(results, w, channel) ==
    IF channel \in DOMAIN results THEN w[channel] ELSE Zero

\* sum(r.<field> for r in results.values())
CountOf(results, field) ==
    (IF "twitter" \in DOMAIN results THEN results["twitter"][field] ELSE 0)
    + (IF "reddit" \in DOMAIN results THEN results["reddit"][field] ELSE 0)
    + (IF "news" \in DOMAIN results THEN results["news"][field] ELSE 0)

\* individual_results is a function from the channels that were analyzed
_combine_sentiments(w, individual_results) ==
    LET total_weighted_score ==
            RAdd[RAdd[ScoreTerm(individual_results, w, "twitter"),
                      ScoreTerm(individual_results, w, "reddit")],
                 ScoreTerm(individual_results, w, "news")]
        total_weighted_confidence ==
            RAdd[RAdd[ConfidenceTerm(individual_results, w, "twitter"),
                      ConfidenceTerm(individual_results, w, "reddit")],
                 ConfidenceTerm(individual_results, w, "news")]
        total_weight ==
            RAdd[RAdd[WeightTerm(individual_results, w, "twitter"),
                      WeightTerm(individual_results, w, "reddit")],
                 WeightTerm(individual_results, w, "news")]
        active_weights == [c \in DOMAIN individual_results |-> w[c]]
        combined_score == IF RLt[Zero, total_weight]
                          THEN RDiv[total_weighted_score, total_weight]
                          ELSE Zero
        combined_confidence == IF RLt[Zero, total_weight]
                               THEN RDiv[total_weighted_confidence, total_weight]
                               ELSE Zero
    IN [overall_sentiment  |-> OverallSentiment(combined_score),
        combined_score     |-> combined_score,
        confidence         |-> combined_confidence,
        weights_used       |-> w,
        individual_results |-> individual_results,
        summary |->
            [total_articles  |-> CountOf(individual_results, "articles_count"),
             total_posts     |-> CountOf(individual_results, "posts_count"),
             total_tweets    |-> CountOf(individual_results, "tweets_count"),
             active_sources  |-> SelectSeq(Channels,
                                     LAMBDA c : c \in DOMAIN individual_results),
             weights_applied |-> active_weights]]

\* what the fetch of a channel did: it returned a value or it raised
Returned(value) == [raised |-> FALSE, value |-> value]

Raised == [raised |-> TRUE, value |-> <<>>]

\* the try/except around one channel
ChannelResult(channel, fetched) ==
    IF fetched.raised THEN NeutralResult(channel)
    ELSE IF channel = "twitter" THEN _analyze_twitter_sentiment(fetched.value)
    ELSE IF channel = "reddit" THEN _analyze_reddit_sentiment(fetched.value)
    ELSE _analyze_news_sentiment(fetched.value)

\* include is the set of channels whose include_ flag is set
analyze_comprehensive_sentiment(w, include, fetched) ==
    _combine_sentiments(w,
        [c \in include |-> ChannelResult(c, fetched[c])])

(***************************************************************************)
(* Inputs of _rank_sectors                                                 *)
(***************************************************************************)
\* the sector argument when no sector is asked for
NoSector == "None"

\* target_sectors: [sector] if sector else every key of sector_mappings and
\* general_market
TargetSectors(sector) ==
    IF sector # NoSector /\ sector # ""
    THEN <<sector>>
    ELSE SECTOR_MAPPINGS \o <<GeneralMarket>>

\* sectors that the classification of the fetched articles may have given
\* articles to, the first NumSectors of them in a call of _rank_sectors
NewsSectors ==
    <<"technology", "healthcare", "utilities", "financial", "energy",
      "communication", "industrials", "materials", "real_estate",
      "consumer_staples", "consumer_discretionary">>

Absent == [article_count |-> 0, sentiment_score |-> Zero, confidence |-> Zero]

\* (article_count, sentiment_score, confidence) of one sector; the
\* confidence is round(min(1.0, article_count / 10.0), 3)
SectorData ==
    { [article_count |-> 1, sentiment_score |-> R[3, 10],  confidence |-> R[1, 10]],
      [article_count |-> 2, sentiment_score |-> R[3, 10],  confidence |-> R[1, 5]],
      [article_count |-> 3, sentiment_score |-> R[3, 10],  confidence |-> R[3, 10]],
      [article_count |-> 9, sentiment_score |-> R[1, 10],  confidence |-> R[9, 10]],
      [article_count |-> 6, sentiment_score |-> R[-1, 5],  confidence |-> R[3, 5]] }

GeneralData ==
    { [article_count |-> 4, sentiment_score |-> R[2, 5], confidence |-> R[2, 5]] }

\* what the first n sectors of NewsSectors, each with articles as in data
\* or with none, and general_market were given
SectorChoicesOf(n, data) ==
    { [s \in DOMAIN g \cup {GeneralMarket} |->
          IF s = GeneralMarket THEN general ELSE g[s]] :
        g \in [{NewsSectors[i] : i \in 1..n} -> data \cup {Absent}],
        general \in GeneralData \cup {Absent} }

SectorChoices == SectorChoicesOf(NumSectors, SectorData)

\* the sector argument of analyze_sector_sentiment
SectorArgs == {NoSector, "", "healthcare"}

\* the dict built by analyze_sector_sentiment: the target sectors that have
\* articles, in the order of target_sectors
RECURSIVE DictOf(_, _)
DictOf(f, target_sectors) ==
    IF target_sectors = <<>> THEN <<>>
    ELSE LET target_sector == Head(target_sectors)
         IN (IF target_sector \in DOMAIN f /\ f[target_sector] # Absent
             THEN << [sector          |-> target_sector,
                      article_count   |-> f[target_sector].article_count,
                      sentiment_score |-> f[target_sector].sentiment_score,
                      confidence      |-> f[target_sector].confidence,
                      etf_ticker      |-> Get(SECTOR_ETFS, target_sector, "N/A")] >>
             ELSE <<>>)
            \o DictOf(f, Tail(target_sectors))

(***************************************************************************)
(* Inputs of the allocator and of the recommendation pipeline              *)
(***************************************************************************)
\* an unrecognized risk tolerance falls back to the moderate presets
RiskToleranceArgs == RiskTolerances \cup {"balanced"}

PortfolioSizes == {RInt[100000]}

\* (sentiment_score, confidence) of a selected sector
SectorInfos ==
    { [sentiment_score |-> One,       confidence |-> One],
      [sentiment_score |-> R[-1, 10], confidence |-> R[3, 10]],
      [sentiment_score |-> R[-9, 10], confidence |-> R[9, 10]] }

\* (sentiment_score, confidence) of a recommended stock
StockScores ==
    { [sentiment_score |-> One,      confidence |-> One],
      [sentiment_score |-> R[-1, 5], confidence |-> R[1, 2]] }

\* stock_recommendations of n sectors: the first n sectors of SECTOR_MAPPINGS,
\* sector i with infos[i] and the first Len(stocks[i]) of its tickers
AllocInput(n, infos, stocks) ==
    List[[i \in 1..n |->
       [sector             |-> SECTOR_MAPPINGS[i],
        sector_info        |-> [sector          |-> SECTOR_MAPPINGS[i],
                                sentiment_score |-> infos[i].sentiment_score,
                                confidence      |-> infos[i].confidence],
        recommended_stocks |->
            [j \in 1..Len(stocks[i]) |->
               [ticker          |-> SECTOR_TICKERS[SECTOR_MAPPINGS[i]][j],
                sentiment_score |-> stocks[i][j].sentiment_score,
                confidence      |-> stocks[i][j].confidence]]]]]

StockLists == UNION { [1..m -> StockScores] : m \in 1..MaxAllocStocks }

\* sector_results of a pipeline run: news for the first sectors only
PipelineSectorChoices ==
    SectorChoicesOf(NumPipelineSectors,
                    {data \in SectorData : data.article_count >= 3})

ModelOutput(label, score) == [label |-> label, score |-> score]

\* one analyzed article, as analyze_general_market_sentiment and
\* analyze_stock_specific_sentiment append it
NewsItem(type, confidence, finbert, general, headline_finbert, headline_general) ==
    [news_classification |-> [type |-> type, confidence |-> confidence],
     combined_analysis   |-> [finbert_sentiment |-> finbert,
                              general_sentiment |-> general],
     headline_only       |-> [finbert_sentiment |-> headline_finbert,
                              general_sentiment |-> headline_general]]

\* analyzed articles: two positive ones, a negative one and one the models
\* disagree on
PositiveArticle ==
    NewsItem("financial", R[9, 10],
             ModelOutput("positive", R[9, 10]), ModelOutput("POSITIVE", R[4, 5]),
             ModelOutput("positive", R[7, 10]), ModelOutput("POSITIVE", R[3, 5]))

NegativeArticle ==
    NewsItem("financial", One,
             ModelOutput("negative", R[4, 5]), ModelOutput("NEGATIVE", R[9, 10]),
             ModelOutput("negative", R[4, 5]), ModelOutput("NEGATIVE", R[1, 2]))

AnalyzedItems ==
    { PositiveArticle,
      NewsItem("non_financial", R[2, 5],
               ModelOutput("positive", R[3, 5]), ModelOutput("POSITIVE", R[7, 10]),
               ModelOutput("positive", R[1, 2]), ModelOutput("POSITIVE", R[1, 2])),
      NegativeArticle,
      NewsItem("non_financial", Zero,
               ModelOutput("neutral", R[4, 5]), ModelOutput("POSITIVE", R[9, 10]),
               None, None) }

AnalyzedLists == UNION { [1..n -> AnalyzedItems] : n \in 0..MaxItems }

\* what analyze_comprehensive_news_sentiment_advanced returns when
\* analyze_general_market_sentiment and analyze_stock_specific_sentiment
\* gave these articles; the articles carry no 'publishedAt', so that the
\* current time does not enter
NewsResult(general_sentiments, stock_sentiments) ==
    Call("analyze_comprehensive_news_sentiment_advanced")[
        general_sentiments, stock_sentiments, 0]

\* the news analysis of the tickers of one sector, in the order of its
\* ticker list and repeated from the fifth ticker on: all failed, or some
\* of them with positive and with negative articles
StockNewsPatterns ==
    { << FailedNewsResult, FailedNewsResult, FailedNewsResult, FailedNewsResult >>,
      << NewsResult(<<PositiveArticle>>, <<PositiveArticle, PositiveArticle>>),
         NewsResult(<<NegativeArticle>>, <<NegativeArticle>>),
         FailedNewsResult,
         NewsResult(<<PositiveArticle>>, <<PositiveArticle, PositiveArticle>>) >>,
      << FailedNewsResult,
         NewsResult(<<PositiveArticle>>, <<PositiveArticle, PositiveArticle>>),
         NewsResult(<<NegativeArticle>>, <<NegativeArticle>>),
         NewsResult(<<NegativeArticle>>, <<NegativeArticle>>) >> }

\* the tickers a pipeline run may analyse: the first 2 * MaxStocksPerSector
\* tickers of the sectors with news
PipelineTickers ==
    { SECTOR_TICKERS[NewsSectors[i]][j] :
        i \in 1..NumPipelineSectors, j \in 1..(2 * MaxStocksPerSector) }

\* the place <<i, j>> of a ticker: the j-th ticker of the i-th sector
PlaceOf(ticker) ==
    CHOOSE place \in (1..NumPipelineSectors) \X (1..(2 * MaxStocksPerSector)) :
        SECTOR_TICKERS[NewsSectors[place[1]]][place[2]] = ticker

\* what analyze_comprehensive_news_sentiment_advanced returns for every
\* ticker, one pattern per sector
StockNewsChoices ==
    { [ticker \in PipelineTickers |->
          patterns[PlaceOf(ticker)[1]][((PlaceOf(ticker)[2] - 1) % 4) + 1]] :
        patterns \in [1..NumPipelineSectors -> StockNewsPatterns] }

(***************************************************************************)
(* Inputs of the news combination and of the channel fusion                *)
(***************************************************************************)
NewsItems ==
    { NewsItem("financial", R[9, 10],
               ModelOutput("positive", R[9, 10]), ModelOutput("POSITIVE", R[4, 5]),
               ModelOutput("positive", R[7, 10]), ModelOutput("POSITIVE", R[3, 5])),
      NewsItem("non_financial", R[2, 5],
               ModelOutput("negative", R[3, 5]), ModelOutput("NEGATIVE", R[7, 10]),
               ModelOutput("neutral", R[1, 2]), ModelOutput("NEGATIVE", R[1, 2])),
      NewsItem("financial", One,
               None, None,
               ModelOutput("negative", R[4, 5]), ModelOutput("POSITIVE", R[1, 2])),
      NewsItem("non_financial", Zero,
               ModelOutput("neutral", R[4, 5]), ModelOutput("POSITIVE", R[9, 10]),
               None, None) }

NewsLists == UNION { [1..n -> NewsItems] : n \in 0..MaxItems }

\* custom weights handed to SentimentWeights(twitter, reddit, news)
WeightArgs ==
    { <<R[3, 10], R[3, 10], R[2, 5]>>,
      <<One, One, RInt[2]>>,
      <<R[1, 2], Zero, R[1, 2]>>,
      <<Zero, Zero, Zero>> }

\* what analyze_twitter_sentiment gives
TwitterFetches ==
    { Raised,
      Returned(<<>>),
      Returned(<< ModelOutput("positive", R[4, 5]) >>),
      Returned(<< ModelOutput("negative", R[3, 5]),
                  ModelOutput("neutral", R[9, 10]) >>) }

\* what analyze_reddit_sentiment gives
RedditFetches ==
    { Raised,
      Returned(<<>>),
      Returned(<< [finbert_sentiment |-> ModelOutput("positive", R[7, 10]),
                   type |-> "post"] >>),
      Returned(<< [finbert_sentiment |-> ModelOutput("negative", R[1, 2]),
                   type |-> "comment"],
                  [finbert_sentiment |-> ModelOutput("negative", R[4, 5]),
                   type |-> "post"] >>) }

\* the articles of one category that the news analysis of the fusion had
FetchedLists == { list \in AnalyzedLists : Len(list) <= MaxFetchedArticles }

\* what analyze_comprehensive_news_sentiment_advanced gives: it catches
\* every exception and returns the failed result, or it returns the
\* analysis of the articles of the two categories
NewsFetches ==
    { Returned(FailedNewsResult) }
    \cup { Returned(NewsResult(general_sentiments, stock_sentiments)) :
              general_sentiments \in FetchedLists,
              stock_sentiments \in FetchedLists }

\* one fetch outcome for every included channel
FetchChoices(include) ==
    { [c \in include |-> IF c = "twitter" THEN t
                         ELSE IF c = "reddit" THEN r ELSE n] :
        t \in TwitterFetches, r \in RedditFetches, n \in NewsFetches }

(***************************************************************************)
(* Specifications                                                          *)
(***************************************************************************)
Init ==
    /\ pc = "start"
    /\ sector_results = NoCall
    /\ sector_rankings = NoCall
    /\ stock_recommendations = NoCall
    /\ alloc_args = NoCall
    /\ portfolio_allocation = NoCall
    /\ final_recommendations = NoCall
    /\ news_args = NoCall
    /\ weighted_combined = NoCall
    /\ self_weights = NoCall
    /\ channel_args = NoCall
    /\ combined_result = NoCall
    /\ call_args = NoCall
    /\ call_result = NoCall

\* one call of SectorSentimentAnalyzer._rank_sectors
RankSectors ==
    /\ pc = "start"
    /\ \E f \in Call("SectorChoices"), sector \in SectorArgs :
          /\ call_args' = [sector |-> sector]
          /\ sector_results' = DictOf(f, TargetSectors(sector))
          /\ sector_rankings' = Call("_rank_sectors")[DictOf(f, TargetSectors(sector))]
    /\ pc' = "_rank_sectors"
    /\ call_result' = call_result
    /\ UNCHANGED <<allocVars, newsVars, fusionVars>>

NextRank == RankSectors

SpecRank == Init /\ [][NextRank]_vars

\* one direct call of _calculate_portfolio_allocation
CalculatePortfolioAllocation ==
    /\ pc = "start"
    /\ \E n \in 1..MaxAllocSectors, portfolio_size \in Call("PortfolioSizes"),
          risk_tolerance \in RiskToleranceArgs :
          \E infos \in [1..n -> Call("SectorInfos")], stocks \in [1..n -> Call("StockLists")] :
             /\ stock_recommendations' = AllocInput(n, infos, stocks)
             /\ alloc_args' = [portfolio_size |-> portfolio_size,
                               risk_tolerance |-> risk_tolerance]
             /\ portfolio_allocation' =
                    Call("_calculate_portfolio_allocation")[
                        AllocInput(n, infos, stocks), portfolio_size,
                        risk_tolerance]
    /\ pc' = "_calculate_portfolio_allocation"
    /\ UNCHANGED <<rankVars, final_recommendations, newsVars, fusionVars, callVars>>

\* one call of generate_investment_recommendations
GenerateInvestmentRecommendations ==
    /\ pc = "start"
    /\ \E portfolio_size \in Call("PortfolioSizes"), risk_tolerance \in RiskToleranceArgs,
          max_sectors \in 1..MaxSectorsArg,
          stocks_per_sector \in 1..MaxStocksPerSector :
          \E news \in Call("StockNewsChoices"),
             sector_analysis \in
                 {[error |-> "news unavailable"]} \cup
                 { [sector_analysis |-> DictOf(f, TargetSectors(NoSector)),
                    sector_rankings |-> Call("_rank_sectors")[DictOf(f, TargetSectors(NoSector))]] :
                      f \in Call("PipelineSectorChoices") } :
             /\ alloc_args' = [portfolio_size    |-> portfolio_size,
                               risk_tolerance    |-> risk_tolerance,
                               max_sectors       |-> max_sectors,
                               stocks_per_sector |-> stocks_per_sector,
                               news              |-> news]
             /\ sector_results' = sector_analysis
             /\ final_recommendations' =
                    Call("generate_investment_recommendations")[
                        sector_analysis, portfolio_size, risk_tolerance,
                        max_sectors, stocks_per_sector, news]
    /\ pc' = "generate_investment_recommendations"
    /\ UNCHANGED <<sector_rankings, stock_recommendations, portfolio_allocation,
                   newsVars, fusionVars, callVars>>

NextAlloc == CalculatePortfolioAllocation \/ GenerateInvestmentRecommendations

SpecAlloc == Init /\ [][NextAlloc]_vars

\* one direct call of calculate_weighted_combined_sentiment, with the
\* category scores calculate_sentiment_score gives for the two lists; an
\* empty category is handed over only in such a call, since
\* analyze_comprehensive_news_sentiment raises before it (CombinedOf)
CalculateWeightedCombinedSentiment ==
    /\ pc = "start"
    /\ \E general_sentiments \in Call("NewsLists"), stock_sentiments \in Call("NewsLists") :
          LET general_score == Call("calculate_sentiment_score")[general_sentiments]
              stock_score   == Call("calculate_sentiment_score")[stock_sentiments]
          IN /\ news_args' = [general_score      |-> general_score,
                              stock_score        |-> stock_score,
                              general_sentiments |-> general_sentiments,
                              stock_sentiments   |-> stock_sentiments]
             /\ weighted_combined' =
                    Call("calculate_weighted_combined_sentiment")[
                        general_score, stock_score,
                        general_sentiments, stock_sentiments]
    /\ pc' = "calculate_weighted_combined_sentiment"
    /\ UNCHANGED <<rankVars, allocVars, fusionVars, callVars>>

NextNews == CalculateWeightedCombinedSentiment

SpecNews == Init /\ [][NextNews]_vars

\* UnifiedSentimentAnalyzer(SentimentWeights(...)), or with the defaults
NewAnalyzer ==
    /\ pc = "start"
    /\ \E w \in Call("WeightArgs") :
          /\ call_args' = [twitter |-> w[1], reddit |-> w[2], news |-> w[3]]
          /\ self_weights' = Call("SentimentWeights")[w[1], w[2], w[3]]
          /\ pc' = IF HasKey(Call("SentimentWeights")[w[1], w[2], w[3]], "error")
                   THEN "raised" ELSE "UnifiedSentimentAnalyzer"
    /\ UNCHANGED <<rankVars, allocVars, newsVars, channel_args, combined_result,
                   call_result>>

\* one call of analyze_comprehensive_sentiment on the analyzer
AnalyzeComprehensiveSentiment ==
    /\ pc = "UnifiedSentimentAnalyzer"
    /\ \E include \in SUBSET SeqRange(Channels) :
          \E fetched \in Call("FetchChoices")[include] :
             /\ channel_args' = [include |-> include, fetched |-> fetched]
             /\ combined_result' =
                    Call("analyze_comprehensive_sentiment")[self_weights, include, fetched]
    /\ pc' = "analyze_comprehensive_sentiment"
    /\ UNCHANGED <<rankVars, allocVars, newsVars, self_weights, callVars>>

NextFusion == NewAnalyzer \/ AnalyzeComprehensiveSentiment

SpecFusion == Init /\ [][NextFusion]_vars

(***************************************************************************)
(* Properties of the sector ranking                                        *)
(***************************************************************************)
RankedSectorNames == {sector_rankings.rankings[i].sector :
                        i \in 1..Len(sector_rankings.rankings)}

EligibleSectors == {sector_results[i].sector : i \in
                      {j \in 1..Len(sector_results) :
                         /\ sector_results[j].article_count >= 2
                         /\ sector_results[j].sector # GeneralMarket}}

\* C8: the rankings are in non-increasing order of sentiment_score *
\* confidence and contain neither a sector with fewer than two articles
\* nor the general_market bucket.
C8_RankingsSortedAndFiltered ==
    pc = "_rank_sectors" =>
        LET r == sector_rankings.rankings
        IN /\ \A i \in 1..(Len(r) - 1) : RLe[SortKey(r[i + 1]), SortKey(r[i])]
           /\ \A i \in 1..Len(r) :
                 r[i].article_count >= 2 /\ r[i].sector # GeneralMarket

\* a call that had a one-article sector and general_market to drop and whose
\* order by key differs from the order by raw score
C8_Witness ==
    /\ pc = "_rank_sectors"
    /\ Len(sector_rankings.rankings) >= 3
    /\ \E j \in 1..Len(sector_results) : sector_results[j].article_count < 2
    /\ \E j \in 1..Len(sector_results) : sector_results[j].sector = GeneralMarket
    /\ \E i \in 1..(Len(sector_rankings.rankings) - 1) :
          RLt[sector_rankings.rankings[i].sentiment_score,
              sector_rankings.rankings[i + 1].sentiment_score]

\* C9: the rankings hold exactly one entry per input sector with at least
\* two articles other than general_market, and rank fields are 1..n in order.
C9_RankingsExactlyEligible ==
    pc = "_rank_sectors" =>
        LET r == sector_rankings.rankings
        IN /\ RankedSectorNames = EligibleSectors
           /\ Len(r) = Cardinality(EligibleSectors)
           /\ \A i \in 1..Len(r) : r[i].rank = i

\* four sectors and general_market, one sector with one article, three
\* ranked entries
C9_Witness ==
    /\ pc = "_rank_sectors"
    /\ Cardinality({j \in 1..Len(sector_results) :
                       sector_results[j].sector # GeneralMarket}) = 4
    /\ Cardinality({j \in 1..Len(sector_results) :
                       /\ sector_results[j].sector # GeneralMarket
                       /\ sector_results[j].article_count = 1}) = 1
    /\ \E j \in 1..Len(sector_results) : sector_results[j].sector = GeneralMarket
    /\ Len(sector_rankings.rankings) = 3
    /\ \E j \in 1..Len(sector_results) : sector_results[j].article_count = 2

TierCount(sector) ==
    LET rec == sector_rankings.recommendations
    IN (IF sector \in SeqRange(rec.overweight) THEN 1 ELSE 0)
       + (IF sector \in SeqRange(rec.neutral) THEN 1 ELSE 0)
       + (IF sector \in SeqRange(rec.underweight) THEN 1 ELSE 0)

\* C10: every ranked sector is in exactly one of the overweight,
\* underweight and neutral recommendation lists.
C10_ExactlyOneTier ==
    pc = "_rank_sectors" =>
        \A sector \in RankedSectorNames : TierCount(sector) = 1

\* what the code does guarantee: never more than one list
C10_AtMostOneTier ==
    pc = "_rank_sectors" =>
        \A sector \in RankedSectorNames : TierCount(sector) <= 1

(***************************************************************************)
(* Properties of the allocation                                            *)
(***************************************************************************)
Cent == R[1, 100]

Within(a, b, tol) == RLt[RAbs[RSub[a, b]], tol]

\* the rounding of the floating-point operations of one call stays far
\* below this
Tolerance == R[1, 1000000000]

\* equal up to the rounding of floating-point arithmetic
Near(a, b) == Within(a, b, Tolerance)

SectorAllocationOf(sector_data) == sector_data.sector_allocation

\* C1: inside every sector of an allocation, the stocks' allocation_amount
\* sum to the sector's sector_allocation (within 0.01).
C1_StocksSumToSectorAllocation ==
    pc = "_calculate_portfolio_allocation" =>
        \A i \in 1..Len(portfolio_allocation) :
            Within(RSum[SeqMap(AmountOf, portfolio_allocation[i].stocks)],
                   portfolio_allocation[i].sector_allocation, Cent)

\* C2: the sector_allocation values of an allocation sum to portfolio_size
\* (within 0.01).
C2_SectorsSumToPortfolioSize ==
    pc = "_calculate_portfolio_allocation" =>
        Within(RSum[SeqMap(SectorAllocationOf, portfolio_allocation)],
               alloc_args.portfolio_size, Cent)

\* the sector analysis succeeded and no ranked sector passes the filter of
\* the requested risk tolerance
NoSectorPasses ==
    /\ pc = "generate_investment_recommendations"
    /\ ~HasKey(sector_results, "error")
    /\ \A i \in 1..Len(sector_results.sector_rankings.rankings) :
          ~RiskFilter(alloc_args.risk_tolerance,
                      sector_results.sector_rankings.rankings[i])

\* C7: when no sector passes the risk-tolerance filter the result is a
\* normal one, with zero selected sectors and an empty allocation, and has
\* no 'error' key.
C7_NoSelectionIsNotAnError ==
    NoSectorPasses =>
        /\ ~HasKey(final_recommendations, "error")
        /\ final_recommendations.selected_sectors = <<>>
        /\ final_recommendations.portfolio_allocation = EmptyDict

(***************************************************************************)
(* Properties of the news combination                                      *)
(***************************************************************************)
\* C3: the two source weights recorded in weights_used, general_market and
\* stock_specific, are both non-negative and sum to 1.
C3_SourceWeightsSumToOne ==
    pc = "calculate_weighted_combined_sentiment" =>
        LET w == weighted_combined.weights_used
        IN /\ RLe[Zero, w.general_market]
           /\ RLe[Zero, w.stock_specific]
           /\ Near(RAdd[w.general_market, w.stock_specific], One)

\* a call in which the financial boost went to one category only and the
\* item confidences moved the weights away from the base weights
C3_Witness ==
    /\ pc = "calculate_weighted_combined_sentiment"
    /\ RLt[R[7, 10], weighted_combined.weights_used.general_financial_ratio]
    /\ ~RLt[R[7, 10], weighted_combined.weights_used.stock_financial_ratio]
    /\ news_args.stock_sentiments # <<>>
    /\ ~REq[weighted_combined.weights_used.general_confidence,
            weighted_combined.weights_used.stock_confidence]
    /\ ~Near(weighted_combined.weights_used.general_market, general_base_weight)

\* C6: when one of the two categories has no items the other one gets
\* weight 1.0 and the empty one weight 0, so that the combined score is the
\* score of the category that has items.
C6_EmptyCategoryGetsNoWeight ==
    pc = "calculate_weighted_combined_sentiment" =>
        LET w == weighted_combined.weights_used
        IN /\ (news_args.general_sentiments = <<>>
               /\ news_args.stock_sentiments # <<>>)
              => /\ Near(w.stock_specific, One)
                 /\ Near(w.general_market, Zero)
                 /\ Near(weighted_combined.weighted_score,
                         news_args.stock_score.score)
           /\ (news_args.stock_sentiments = <<>>
               /\ news_args.general_sentiments # <<>>)
              => /\ Near(w.general_market, One)
                 /\ Near(w.stock_specific, Zero)
                 /\ Near(weighted_combined.weighted_score,
                         news_args.general_score.score)

(***************************************************************************)
(* Properties of the channel fusion                                        *)
(***************************************************************************)
RECURSIVE SumOver(_, _)
\* sum of f[c] over the channels c in the set S
SumOver(f, S) ==
    IF S = {} THEN Zero
    ELSE LET c == CHOOSE x \in S : TRUE
         IN RAdd[f[c], SumOver(f, S \ {c})]

\* C4: with at least one active channel, the weights recorded as applied
\* are the renormalized weights of the active channels and sum to 1.
C4_WeightsAppliedSumToOne ==
    (pc = "analyze_comprehensive_sentiment" /\ channel_args.include # {}) =>
        Near(SumOver(combined_result.summary.weights_applied,
                     DOMAIN combined_result.summary.weights_applied), One)

\* the channel raised or produced no items
ChannelFailed(c) ==
    /\ c \in channel_args.include
    /\ \/ channel_args.fetched[c].raised
       \/ IF c = "news"
          THEN HasKey(channel_args.fetched[c].value, "error")
          ELSE channel_args.fetched[c].value = <<>>

FailedChannels == {c \in channel_args.include : ChannelFailed(c)}

RemainingChannels == channel_args.include \ FailedChannels

\* C5: a channel that raised or yielded no items is left out of the fusion:
\* the combined score and confidence are the weighted means over the
\* remaining channels, with their base weights renormalized to sum to 1.
C5_FailedChannelLeftOut ==
    (/\ pc = "analyze_comprehensive_sentiment"
     /\ FailedChannels # {}
     /\ RLt[Zero, SumOver(self_weights, RemainingChannels)]) =>
        LET total == SumOver(self_weights, RemainingChannels)
            renormalized == [c \in RemainingChannels |->
                               RDiv[self_weights[c], total]]
            scores == [c \in RemainingChannels |->
                         RMul[renormalized[c],
                              combined_result.individual_results[c].score]]
            confidences == [c \in RemainingChannels |->
                         RMul[renormalized[c],
                              combined_result.individual_results[c].confidence]]
        IN /\ Near(combined_result.combined_score,
                   SumOver(scores, RemainingChannels))
           /\ Near(combined_result.confidence,
                   SumOver(confidences, RemainingChannels))

(***************************************************************************)
(* calculate_time_decay_weight                                             *)
(***************************************************************************)
\* A publication date string is the pair of the format its text is written in
\* and the instant it denotes, in hours; "" is the empty string, "None" a
\* missing value, "garbage" a text in no known format.  The machine's time
\* zone is UTC.
DateString(format, at) == [format |-> format, at |-> at]

IsoZ == "%Y-%m-%dT%H:%M:%SZ"

IsoNaive == "%Y-%m-%dT%H:%M:%S"

SqlFormat == "%Y-%m-%d %H:%M:%S"

DateOnly == "%Y-%m-%d"

Rfc822 == "%a, %d %b %Y %H:%M:%S %Z"

date_formats == <<IsoZ, SqlFormat, DateOnly, Rfc822>>

\* datetime.strptime(date_string, format): the instant, or the exception
strptime(date_string, format) ==
    IF date_string.format = "None"
    THEN [raised |-> "TypeError", value |-> 0]
    ELSE IF date_string.format = format
    THEN [raised |-> "", value |-> date_string.at]
    ELSE [raised |-> "ValueError", value |-> 0]

ParsePublishDate(publish_date_str, i) == Call("ParsePublishDate")[publish_date_str, i]

\* the loop over date_formats from format i on; parsed is FALSE when
\* publish_date stays None
ParsePublishDateDef(publish_date_str, i) ==
    IF i > Len(date_formats)
    THEN [raised |-> "", parsed |-> FALSE, value |-> 0]
    ELSE LET r == strptime(publish_date_str, date_formats[i])
         IN IF r.raised = ""
            THEN [raised |-> "", parsed |-> TRUE, value |-> r.value]
            ELSE IF r.raised = "ValueError"
            THEN ParsePublishDate(publish_date_str, i + 1)
            ELSE [raised |-> r.raised, parsed |-> FALSE, value |-> 0]

\* math.exp(k / 4) for k = -24 .. 24
ExpValues ==
    <<Float[0, <<5334, 1103, 9503, 1299>>, -61],
      Float[0, <<5584, 14134, 11366, 1668>>, -61],
      Float[0, <<14120, 11049, 5285, 1071>>, -60],
      Float[0, <<9499, 14903, 9919, 1375>>, -60],
      Float[0, <<4982, 53, 5118, 1766>>, -60],
      Float[0, <<12441, 15993, 16301, 1133>>, -59],
      Float[0, <<1047, 6743, 1284, 1456>>, -59],
      Float[0, <<5970, 1160, 10513, 1869>>, -59],
      Float[0, <<15604, 8324, 5467, 1200>>, -58],
      Float[0, <<3369, 5436, 4243, 1541>>, -58],
      Float[0, <<16230, 9107, 257, 1979>>, -58],
      Float[0, <<4141, 5254, 9064, 1270>>, -57],
      Float[0, <<12463, 13114, 6924, 1631>>, -57],
      Float[0, <<8208, 9406, 6456, 1047>>, -56],
      Float[0, <<13349, 595, 14428, 1344>>, -56],
      Float[0, <<6135, 14865, 14104, 1726>>, -56],
      Float[0, <<460, 3838, 10922, 1108>>, -55],
      Float[0, <<8307, 14344, 9111, 1423>>, -55],
      Float[0, <<7197, 2349, 14455, 1827>>, -55],
      Float[0, <<6223, 7337, 8579, 1173>>, -54],
      Float[0, <<12088, 6323, 13667, 1506>>, -54],
      Float[0, <<3454, 12223, 13326, 1934>>, -54],
      Float[0, <<5642, 12734, 2863, 1242>>, -53],
      Float[0, <<523, 15026, 16121, 1594>>, -53],
      Float[0, <<0, 0, 0, 1024>>, -52],
      Float[0, <<390, 12538, 13795, 1314>>, -52],
      Float[0, <<1692, 14456, 4760, 1688>>, -52],
      Float[0, <<7416, 4511, 14811, 1083>>, -51],
      Float[0, <<5993, 11345, 12456, 1391>>, -51],
      Float[0, <<15088, 14019, 910, 1787>>, -51],
      Float[0, <<1345, 6463, 5118, 1147>>, -50],
      Float[0, <<11455, 366, 2921, 1473>>, -50],
      Float[0, <<7598, 9043, 9803, 1891>>, -50],
      Float[0, <<16001, 3025, 7048, 1214>>, -49],
      Float[0, <<8379, 9415, 5885, 1559>>, -49],
      Float[0, <<10493, 12143, 4208, 2002>>, -49],
      Float[0, <<12550, 15806, 7771, 1285>>, -48],
      Float[0, <<4427, 7684, 9531, 1650>>, -48],
      Float[0, <<11227, 1253, 11378, 1059>>, -47],
      Float[0, <<9959, 649, 11053, 1360>>, -47],
      Float[0, <<14936, 14492, 2306, 1747>>, -47],
      Float[0, <<10141, 3509, 11249, 1121>>, -46],
      Float[0, <<7850, 14215, 4490, 1440>>, -46],
      Float[0, <<13596, 11191, 5710, 1849>>, -46],
      Float[0, <<13199, 9664, 5001, 1187>>, -45],
      Float[0, <<4687, 15391, 8685, 1524>>, -45],
      Float[0, <<15350, 15494, 8772, 1957>>, -45],
      Float[0, <<15166, 1842, 12495, 1256>>, -44],
      Float[0, <<143, 6723, 11717, 1613>>, -44]>>

\* math.exp raises OverflowError above ln(max float) = 709.78...
ExpOverflows(x) == RLt[R[70978, 100], x]

math_exp == Call("math_exp")

\* math.exp(x) for x a multiple of 1/4 in [-6, 6], and 0.0 where the result
\* underflows
math_expDef[x \in Any] ==
    IF RLt[x, RInt[-746]] THEN Zero
    ELSE ExpValues[RFloor[RMul[x, RInt[4]]] + 25]

\* (datetime.now() - publish_date).total_seconds() / 3600 with the sign lost
HoursDiffReversed(now, publish_date) == RInt[publish_date - now]

\* (datetime.now() - publish_date).total_seconds() / 3600
HoursDiff(now, publish_date) == RInt[now - publish_date]

\* a clamp that forgets the upper end
ClampLow(min_weight, weight) == RMax[min_weight, weight]

\* max(min_weight, min(1.0, weight))
Clamp(min_weight, weight) == RMax[min_weight, RMin[One, weight]]

\* now is what datetime.now() returns during the call
calculate_time_decay_weight(publish_date_str, decay_hours, min_weight, now) ==
    LET publish_date == ParsePublishDate(publish_date_str, 1)
    IN IF publish_date.raised # "" THEN One
       ELSE IF ~publish_date.parsed THEN One
       ELSE IF decay_hours = 0 THEN One
       ELSE LET hours_diff == HoursDiff(now, publish_date.value)
                x == RDiv[RNeg[hours_diff], RInt[decay_hours]]
            IN IF ExpOverflows(x) THEN One
               ELSE Clamp(min_weight,
                          RAdd[min_weight,
                               RMul[RSub[One, min_weight], math_exp[x]]])

\* news_sentiments_optimized.py: what the two parsing branches accept
OptimizedParses(published_at_str) ==
    published_at_str.format \in {IsoZ, IsoNaive, SqlFormat}

\* news_sentiments_optimized.calculate_time_decay_weight
calculate_time_decay_weight_optimized(published_at_str, max_age_hours, now) ==
    IF published_at_str.format \in {"None", ""} THEN One
    ELSE IF ~OptimizedParses(published_at_str) THEN One
    ELSE LET hours_ago == RInt[now - published_at_str.at]
         IN IF RLe[hours_ago, Zero] THEN One
            ELSE IF RLe[RInt[max_age_hours], hours_ago] THEN R[3, 10]
            ELSE RSub[One, RMul[RDiv[hours_ago, RInt[max_age_hours]], R[7, 10]]]

(***************************************************************************)
(* Calls of calculate_time_decay_weight                                    *)
(***************************************************************************)
\* instants in steps of six hours around the current time, one so far in
\* the future that math.exp overflows and one so far in the past that it
\* underflows
Instants ==
    {6 * s : s \in (0 - MaxAgeSteps)..MaxFutureSteps}
    \cup {24 * 1000, 0 - 24 * 1000}

DateStrings ==
    {DateString(f, at) : f \in SeqRange(date_formats) \cup {IsoNaive},
                         at \in Instants}
    \cup {DateString("", 0), DateString("None", 0), DateString("garbage", 0)}

DecayHours == {0, 12, 24}

MinWeights == {Zero, R[1, 10], R[1, 2], One}

MaxAgeHours == {48, 72}

Nows == {0, 6}

\* two calls of calculate_time_decay_weight at the same current time
CalculateTimeDecayWeight ==
    /\ pc = "start"
    /\ \E t1 \in DateStrings, t2 \in DateStrings, decay_hours \in DecayHours,
          min_weight \in Call("MinWeights"), now \in Nows :
          /\ call_args' = [t1 |-> t1, t2 |-> t2, decay_hours |-> decay_hours,
                           min_weight |-> min_weight, now |-> now]
          /\ call_result' =
                 <<Call("calculate_time_decay_weight")[t1, decay_hours, min_weight, now],
                   Call("calculate_time_decay_weight")[t2, decay_hours, min_weight, now]>>
    /\ pc' = "calculate_time_decay_weight"
    /\ UNCHANGED <<rankVars, allocVars, newsVars, fusionVars>>

\* two calls of the calculate_time_decay_weight of news_sentiments_optimized
CalculateTimeDecayWeightOptimized ==
    /\ pc = "start"
    /\ \E t1 \in DateStrings, t2 \in DateStrings,
          max_age_hours \in MaxAgeHours, now \in Nows :
          /\ call_args' = [t1 |-> t1, t2 |-> t2, decay_hours |-> max_age_hours,
                           min_weight |-> Call("R")[3, 10], now |-> now]
          /\ call_result' =
                 <<Call("calculate_time_decay_weight_optimized")[t1, max_age_hours, now],
                   Call("calculate_time_decay_weight_optimized")[t2, max_age_hours, now]>>
    /\ pc' = "calculate_time_decay_weight_optimized"
    /\ UNCHANGED <<rankVars, allocVars, newsVars, fusionVars>>

NextDecay == CalculateTimeDecayWeight \/ CalculateTimeDecayWeightOptimized

SpecDecay == Init /\ [][NextDecay]_vars

(***************************************************************************)
(* Properties of the time decay                                            *)
(***************************************************************************)
\* the call parsed the date string into a publication time
Parseable(t) ==
    IF pc = "calculate_time_decay_weight"
    THEN t.format \in SeqRange(date_formats)
    ELSE OptimizedParses(t)

\* C11: for two parseable publication times t1 < t2 seen at the same current
\* time with decay_hours > 0, the weight of t1 is at most the weight of t2,
\* and every returned weight lies in [min_weight, 1.0].
C11_DecayMonotoneAndBounded ==
    pc \in {"calculate_time_decay_weight",
            "calculate_time_decay_weight_optimized"} =>
        /\ (/\ Parseable(call_args.t1)
            /\ Parseable(call_args.t2)
            /\ call_args.decay_hours > 0
            /\ call_args.t1.at < call_args.t2.at)
           => RLe[call_result[1], call_result[2]]
        /\ \A i \in 1..2 : /\ RLe[call_args.min_weight, call_result[i]]
                           /\ RLe[call_result[i], One]

\* an older and a newer article, both in the past and in different formats,
\* with weights strictly apart and strictly inside the bounds
C11_Witness ==
    /\ pc = "calculate_time_decay_weight"
    /\ call_args.t1.format = DateOnly
    /\ call_args.t2.format = IsoZ
    /\ call_args.t1.at < call_args.t2.at
    /\ call_args.t2.at < call_args.now
    /\ call_args.decay_hours > 0
    /\ RLt[call_args.min_weight, call_result[1]]
    /\ RLt[call_result[1], call_result[2]]
    /\ RLt[call_result[2], One]

\* the date string matches none of the accepted formats
Unparseable(t) == t.format \notin SeqRange(date_formats)

\* C12: calculate_time_decay_weight returns exactly 1.0 for every timestamp
\* that matches none of the accepted formats, the empty string and a missing
\* value included, and for every timestamp in the future.
C12_UnparseableOrFutureIsOne ==
    pc = "calculate_time_decay_weight" =>
        /\ Unparseable(call_args.t1) \/ call_args.t1.at > call_args.now
              => REq[call_result[1], One]
        /\ Unparseable(call_args.t2) \/ call_args.t2.at > call_args.now
              => REq[call_result[2], One]

\* a missing value next to a timestamp a few hours ahead, with a minimum
\* weight below 1
C12_Witness ==
    /\ pc = "calculate_time_decay_weight"
    /\ call_args.t1.format = "None"
    /\ call_args.t2.format = SqlFormat
    /\ call_args.t2.at > call_args.now
    /\ call_args.t2.at < 24
    /\ call_args.decay_hours > 0
    /\ call_args.min_weight = R[1, 10]
    /\ call_result = <<One, One>>

(***************************************************************************)
(* classify_financial_news_finbert and classify_financial_news_keywords    *)
(***************************************************************************)
\* A text is the sequence of its words that contain a financial keyword
\* (words of Vocabulary, already in lower case) and the number of its other
\* words.  A text without any word is a text of blanks, as
\* f"{headline} {summary}" of an article that has neither.
Text(words, filler) == [words |-> words, filler |-> filler]

\* the empty string, and None: the texts of which `not text` holds
EmptyText == [words |-> <<>>, filler |-> 0, empty |-> TRUE]

\* the financial_keywords list of classify_financial_news_keywords
fallback_keywords ==
    {"stock", "market", "trading", "investment", "earnings", "revenue",
     "profit", "loss", "dividend", "share", "portfolio", "finance",
     "economy", "economic", "financial", "banking", "credit", "debt",
     "inflation", "recession", "gdp", "fed", "interest rate", "bond"}

\* the financial_keywords list of classify_financial_news_finbert
finbert_keywords ==
    fallback_keywords \cup
    {"commodity", "currency", "forex", "cryptocurrency", "bitcoin"}

\* the keywords that are substrings of a word of the vocabulary
KeywordsIn(word) ==
    CASE word = "stocks"         -> {"stock"}
      [] word = "market"         -> {"market"}
      [] word = "earnings"       -> {"earnings"}
      [] word = "federal"        -> {"fed"}
      [] word = "bitcoin"        -> {"bitcoin"}
      [] word = "cryptocurrency" -> {"cryptocurrency", "currency"}
      [] OTHER                   -> {}

Vocabulary ==
    {"stocks", "market", "earnings", "federal", "bitcoin", "cryptocurrency"}

KeywordMatches(text, financial_keywords) == Call("KeywordMatches")[text, financial_keywords]

\* sum(1 for keyword in financial_keywords if keyword in text_lower)
KeywordMatchesDef(text, financial_keywords) ==
    Cardinality({keyword \in financial_keywords :
                    \E i \in 1..Len(text.words) :
                        keyword \in KeywordsIn(text.words[i])})

\* len(text.split())
TotalWords(text) == Len(text.words) + text.filler

\* min(1.0, matches / max(1, total_words * density))
KeywordDensity(matches, total_words, density) ==
    RMin[One, RDiv[RInt[matches],
                   RMax[One, RMul[RInt[total_words], density]]]]

classify_financial_news_keywords(text) == Call("classify_financial_news_keywords")[text]

classify_financial_news_keywordsDef(text) ==
    LET matches    == KeywordMatches(text, fallback_keywords)
        confidence == KeywordDensity(matches, TotalWords(text), R[1, 10])
    IN [is_financial    |-> matches >= 2 \/ RLt[R[1, 5], confidence],
        confidence      |-> confidence,
        method          |-> "keyword_based",
        keyword_matches |-> matches]

\* loaded: the financial_classifier pipeline was created at import;
\* raises: the call of the pipeline on the text raises
classify_financial_news_finbert(text, loaded, raises) ==
    IF ~loaded THEN classify_financial_news_keywords(text)
    ELSE IF raises THEN classify_financial_news_keywords(text)
    ELSE LET financial_score == KeywordMatches(text, finbert_keywords)
             financial_relevance ==
                 KeywordDensity(financial_score, TotalWords(text), R[1, 20])
         IN [is_financial    |-> RLt[R[3, 10], financial_relevance],
             confidence      |-> financial_relevance,
             method          |-> "finbert_enhanced",
             keyword_matches |-> financial_score]

\* FINANCIAL_KEYWORDS of news_sentiments_optimized
FINANCIAL_KEYWORDS ==
    {"earnings", "revenue", "profit", "quarterly", "dividend", "stock",
     "share", "market", "trading", "investment", "financial", "economy",
     "price", "analyst", "forecast", "guidance", "sec", "ipo", "merger",
     "acquisition"}

\* classify_financial_news_finbert of news_sentiments_optimized
classify_financial_news_finbert_optimized(text) ==
    IF text = EmptyText
    THEN [is_financial |-> FALSE, confidence |-> Zero, type |-> FALSE]
    ELSE LET matches    == KeywordMatches(text, FINANCIAL_KEYWORDS)
             confidence == KeywordDensity(matches, TotalWords(text), R[1, 10])
             is_financial == matches >= 2 \/ RLt[R[1, 5], confidence]
         IN [is_financial    |-> is_financial,
             confidence      |-> confidence,
             type            |-> is_financial,
             keyword_matches |-> matches]

(***************************************************************************)
(* The items of analyze_general_market_sentiment                           *)
(***************************************************************************)
\* A Python bool where the program also keeps strings: True and False are
\* written "True" and "False", which equal no string of the program.
PyBool(b) == IF b THEN "True" ELSE "False"

\* one fetched article with what the two sentiment models return for its
\* combined text and for its headline, and whether analysing it raises
Article(text, publishedAt, finbert, general, headline_finbert, headline_general, raises) ==
    [text             |-> text,
     publishedAt      |-> publishedAt,
     finbert          |-> finbert,
     general          |-> general,
     headline_finbert |-> headline_finbert,
     headline_general |-> headline_general,
     raises           |-> raises]

\* the dict analyze_general_market_sentiment appends for one article
AnalyzedArticle(article, loaded) ==
    LET classification_result ==
            classify_financial_news_finbert(article.text, loaded, FALSE)
        news_type == PyBool(classification_result.is_financial)
    IN NewsItem(news_type, classification_result.confidence,
                article.finbert, article.general,
                article.headline_finbert, article.headline_general)

ArticleAnalysed(article) == ~article.raises

\* analyze_general_market_sentiment() over the fetched articles: an article
\* whose analysis raises is reported and left out
analyze_general_market_sentiment(articles, loaded) ==
    LET analysed == SelectSeq(articles, ArticleAnalysed)
    IN List[[i \in 1..Len(analysed) |-> AnalyzedArticle(analysed[i], loaded)]]

(***************************************************************************)
(* news_sentiments_optimized: items and category averages                  *)
(***************************************************************************)
\* final_score of one article: the two model scores as they come
OptimizedFinalScore(finbert_sentiment, general_sentiment) ==
    LET finbert_score == IF finbert_sentiment # None
                         THEN finbert_sentiment.score ELSE Zero
        general_score == IF general_sentiment # None
                         THEN general_sentiment.score ELSE Zero
    IN IF finbert_sentiment # None \/ general_sentiment # None
       THEN RAdd[RMul[finbert_score, R[7, 10]], RMul[general_score, R[3, 10]]]
       ELSE Zero

\* the dict the optimized analyze_general_market_sentiment appends
OptimizedAnalyzedArticle(article, now) ==
    LET classification_result ==
            classify_financial_news_finbert_optimized(article.text)
    IN [score         |-> OptimizedFinalScore(article.finbert, article.general),
        is_financial  |-> classification_result.is_financial,
        time_weight   |-> calculate_time_decay_weight_optimized(
                              article.publishedAt, 72, now),
        news_classification |->
            [type       |-> PyBool(classification_result.is_financial),
             confidence |-> classification_result.confidence],
        combined_analysis |-> [finbert_sentiment |-> article.finbert,
                               general_sentiment |-> article.general],
        category      |-> "general_market"]

analyze_general_market_sentiment_optimized(articles, now) ==
    LET analysed == SelectSeq(articles, ArticleAnalysed)
    IN List[[i \in 1..Len(analysed) |-> OptimizedAnalyzedArticle(analysed[i], now)]]

\* the loop of analyze_comprehensive_news_sentiment_advanced over one list:
\* the items have no 'publishedAt' key, so time_weight is reset to 1.0
TimeDecayed(item, now) ==
    IF HasKey(item, "publishedAt")
    THEN LET time_weight == calculate_time_decay_weight_optimized(
                                item.publishedAt, 72, now)
         IN [item EXCEPT !.time_weight = time_weight]
            @@ [weighted_score |-> RMul[Get(item, "score", Zero), time_weight]]
    ELSE [item EXCEPT !.time_weight = One]
         @@ [weighted_score |-> Get(item, "score", Zero)]

WeightedScoreOf(item) == Get(item, "weighted_score", Zero)

\* sum(item.get('weighted_score', 0) for item in sentiments)
\*     / max(len(sentiments), 1)
WeightedAvg(sentiments) ==
    RDiv[RSum[SeqMap(WeightedScoreOf, sentiments)],
         RInt[Max2[Len(sentiments), 1]]]

(***************************************************************************)
(* SectorSentimentAnalyzer._calculate_sector_sentiment                     *)
(***************************************************************************)
positive_words ==
    {"positive", "growth", "increase", "rise", "gain", "strong", "beat", "exceed"}

negative_words ==
    {"negative", "decline", "decrease", "fall", "loss", "weak", "miss", "disappoint"}

\* the words of the two lists that are substrings of a headline word in
\* lower case
SentimentWordsIn(word) ==
    CASE word = "gains"      -> {"gain"}
      [] word = "rises"      -> {"rise"}
      [] word = "enterprise" -> {"rise"}
      [] word = "beats"      -> {"beat"}
      [] word = "exceeds"    -> {"exceed"}
      [] word = "losses"     -> {"loss"}
      [] word = "falls"      -> {"fall"}
      [] word = "misses"     -> {"miss"}
      [] word \in positive_words \cup negative_words -> {word}
      [] OTHER               -> {}

\* sum(1 for word in words if word in headline.lower())
WordCount(headline, words) ==
    Cardinality({word \in words :
                    \E i \in 1..Len(headline) :
                        word \in SentimentWordsIn(headline[i])})

\* the article's score, or the keyword score of its headline when the
\* article has none or a zero one
ArticleScore(article) ==
    LET score == Get(article, "score", Zero)
    IN IF ~IsZero[score] THEN score
       ELSE LET headline  == Get(article, "headline", <<>>)
                pos_count == WordCount(headline, positive_words)
                neg_count == WordCount(headline, negative_words)
            IN RMul[RInt[pos_count - neg_count], R[1, 5]]

ArticleTimeWeight(article) == Get(article, "time_weight", One)

ArticleWeightedScore(article) ==
    RMul[ArticleScore(article), ArticleTimeWeight(article)]

ArticleIsFinancial(article) ==
    Get(Get(article, "financial_classification", EmptyDict),
        "is_financial", FALSE)

ProcessedArticle(article) ==
    [headline          |-> Get(article, "headline", <<>>),
     source            |-> Get(article, "source", "Unknown"),
     score             |-> ArticleScore(article),
     weighted_score    |-> ArticleWeightedScore(article),
     time_weight       |-> ArticleTimeWeight(article),
     is_financial      |-> ArticleIsFinancial(article),
     sector_confidence |->
         Get(Get(article, "sector_classification", EmptyDict),
             "confidence", Zero)]

_calculate_sector_sentiment(articles, sector) ==
    IF articles = <<>>
    THEN [sentiment_score    |-> Zero,
          sentiment_label    |-> "Neutral",
          confidence         |-> Zero,
          article_count      |-> 0,
          financial_articles |-> 0,
          avg_time_weight    |-> Zero,
          articles           |-> <<>>]
    ELSE LET total_score     == RSum[SeqMap(ArticleWeightedScore, articles)]
             time_weights    == SeqMap(ArticleTimeWeight, articles)
             financial_count == Len(SelectSeq(articles, ArticleIsFinancial))
             avg_sentiment   == RDiv[total_score, RInt[Len(articles)]]
             avg_time_weight == RDiv[RSum[time_weights], RInt[Len(time_weights)]]
             financial_ratio == R[financial_count, Len(articles)]
             sentiment_label == IF RLt[R[1, 10], avg_sentiment] THEN "Positive"
                                ELSE IF RLt[avg_sentiment, R[-1, 10]]
                                     THEN "Negative" ELSE "Neutral"
             confidence      == RMin[One, R[Len(articles), 10]]
         IN [sentiment_score    |-> PyRound[avg_sentiment, 3],
             sentiment_label    |-> sentiment_label,
             confidence         |-> PyRound[confidence, 3],
             article_count      |-> Len(articles),
             financial_articles |-> financial_count,
             financial_ratio    |-> PyRound[financial_ratio, 3],
             avg_time_weight    |-> PyRound[avg_time_weight, 3],
             etf_ticker         |-> IF sector \in DOMAIN SECTOR_ETFS
                                    THEN SECTOR_ETFS[sector] ELSE "N/A",
             articles           |-> PySlice(SeqMap(ProcessedArticle, articles), 0, 5)]

(***************************************************************************)
(* Calls of the item and category scoring                                  *)
(***************************************************************************)
\* texts of fetched articles
Texts ==
    { Text(<<"stocks", "earnings">>, 2),
      Text(<<"market">>, 49),
      Text(<<"bitcoin">>, 3),
      Text(<<>>, 6) }

FinbertOutputs ==
    { ModelOutput("positive", R[9, 10]), ModelOutput("negative", R[4, 5]), None }

GeneralOutputs ==
    { ModelOutput("POSITIVE", R[4, 5]), ModelOutput("NEGATIVE", R[3, 5]) }

\* fetched articles: the headline alone gets the outputs of the combined
\* text, or none when the headline is empty
FetchedArticles ==
    { Article(text, DateString(IsoZ, at), finbert, general,
              headline_finbert, None, FALSE) :
        text \in Texts, at \in {-12}, finbert \in FinbertOutputs,
        general \in GeneralOutputs,
        headline_finbert \in {ModelOutput("neutral", R[7, 10])} }
    \cup { Article(Text(<<>>, 0), DateString("", 0), None, None, None, None, TRUE) }

ArticleLists == UNION { [1..n -> FetchedArticles] : n \in 0..MaxItems }

\* general_sentiments = analyze_general_market_sentiment() and
\* general_score = calculate_sentiment_score(general_sentiments), as
\* analyze_comprehensive_news_sentiment runs them
AnalyzeGeneralMarketSentiment ==
    /\ pc = "start"
    /\ \E articles \in Call("ArticleLists"), loaded \in BOOLEAN :
          LET general_sentiments ==
                  Call("analyze_general_market_sentiment")[articles, loaded]
          IN /\ call_args' = [articles   |-> articles,
                              loaded     |-> loaded,
                              sentiments |-> general_sentiments]
             /\ call_result' = Call("calculate_sentiment_score")[general_sentiments]
    /\ pc' = "analyze_general_market_sentiment"
    /\ UNCHANGED <<rankVars, allocVars, newsVars, fusionVars>>

\* a direct call of calculate_sentiment_score on items whose type is one of
\* the strings 'financial' and 'non_financial'
CalculateSentimentScore ==
    /\ pc = "start"
    /\ \E sentiments \in Call("NewsLists") :
          /\ call_args' = [sentiments |-> sentiments]
          /\ call_result' = Call("calculate_sentiment_score")[sentiments]
    /\ pc' = "calculate_sentiment_score"
    /\ UNCHANGED <<rankVars, allocVars, newsVars, fusionVars>>

\* news_sentiments_optimized: analyze_general_market_sentiment() and the
\* general half of analyze_comprehensive_news_sentiment_advanced
AnalyzeGeneralMarketSentimentOptimized ==
    /\ pc = "start"
    /\ \E articles \in Call("ArticleLists"), now \in Nows :
          LET fetched == Call("analyze_general_market_sentiment_optimized")[articles, now]
              general_sentiments ==
                  List[[i \in 1..Len(fetched) |-> Call("TimeDecayed")[fetched[i], now]]]
          IN /\ call_args' = [articles   |-> articles,
                              now        |-> now,
                              sentiments |-> general_sentiments]
             /\ call_result' =
                    [general_weighted_avg |-> Call("WeightedAvg")[general_sentiments]]
    /\ pc' = "analyze_general_market_sentiment_optimized"
    /\ UNCHANGED <<rankVars, allocVars, newsVars, fusionVars>>

\* articles as analyze_sector_sentiment groups them: headline, time_weight
\* and financial_classification, no score; and articles that bring a score
SectorArticle(headline, time_weight, is_financial) ==
    [headline    |-> headline,
     time_weight |-> time_weight,
     financial_classification |-> [is_financial |-> is_financial]]

SectorArticles ==
    { SectorArticle(<<"strong", "growth", "beats">>, One, TRUE),
      SectorArticle(<<"strong", "growth", "gains", "rises", "exceeds",
                      "positive">>, One, TRUE),
      SectorArticle(<<"weak", "losses">>, R[1, 2], FALSE),
      SectorArticle(<<"strong", "growth">>, R[1, 2], TRUE),
      SectorArticle(<<"gains", "rises">>, R[1, 10], FALSE),
      SectorArticle(<<"weak">>, R[1, 2], FALSE),
      [headline |-> <<"weak", "losses">>],
      [headline |-> <<"strong">>],
      [headline |-> <<"enterprise", "software">>],
      [score |-> R[1, 2], time_weight |-> One] }

SectorArticleLists == UNION { [1..n -> SectorArticles] : n \in 0..MaxArticles }

\* one call of _calculate_sector_sentiment
CalculateSectorSentiment ==
    /\ pc = "start"
    /\ \E articles \in Call("SectorArticleLists"),
          sector \in {"technology", GeneralMarket} :
          /\ call_args' = [articles |-> articles, sector |-> sector]
          /\ call_result' = Call("_calculate_sector_sentiment")[articles, sector]
    /\ pc' = "_calculate_sector_sentiment"
    /\ UNCHANGED <<rankVars, allocVars, newsVars, fusionVars>>

NextScore ==
    \/ AnalyzeGeneralMarketSentiment
    \/ CalculateSentimentScore
    \/ AnalyzeGeneralMarketSentimentOptimized
    \/ CalculateSectorSentiment

SpecScore == Init /\ [][NextScore]_vars

(***************************************************************************)
(* Properties of the item and category scoring                             *)
(***************************************************************************)
\* the articles of the call whose analysis did not raise
AnalysedArticles == SelectSeq(call_args.articles, ArticleAnalysed)

\* what the claimed blend gives for one article of the pipeline
ClaimedContribution(article) ==
    LET verdict == classify_financial_news_finbert(article.text,
                                                   call_args.loaded, FALSE)
        financeScore == ExtractScore(article.finbert, article.headline_finbert)
        generalScore == ExtractScore(article.general, article.headline_general)
        blended == IF verdict.is_financial
                   THEN RAdd[RMul[R[4, 5], financeScore], RMul[R[1, 5], generalScore]]
                   ELSE RAdd[RMul[R[2, 5], financeScore], RMul[R[3, 5], generalScore]]
    IN RMul[blended, verdict.confidence]

\* C13: an item the relevance classifier of the pipeline found financial
\* contributes (0.8*financeScore + 0.2*generalScore) * confidence to the
\* category score, a non-financial one (0.4*financeScore + 0.6*generalScore)
\* * confidence.
C13_BlendFollowsClassification ==
    (pc = "analyze_general_market_sentiment" /\ AnalysedArticles # <<>>) =>
        Near(call_result.score,
             Mean[SeqMap(ClaimedContribution, AnalysedArticles)])

\* +probability for a positive label, -probability for a negative one, 0
\* for neutral or a missing output
ClaimedScalar(output) ==
    IF output = None THEN Zero
    ELSE IF output.label \in {"positive", "POSITIVE"} THEN output.score
    ELSE IF output.label \in {"negative", "NEGATIVE"} THEN RNeg[output.score]
    ELSE Zero

ClaimedFinbertScalar(article) ==
    ClaimedScalar(IF article.finbert # None THEN article.finbert
                  ELSE article.headline_finbert)

LabelledNegative(output) ==
    output # None /\ output.label \in {"negative", "NEGATIVE"}

\* C14: every model output is turned into a signed scalar before it is
\* blended or averaged, so that an item whose outputs are labelled negative
\* never contributes a positive score.
C14_SignedScalarConversion ==
    /\ (pc = "analyze_general_market_sentiment" /\ AnalysedArticles # <<>>) =>
          Near(call_result.finbert_avg,
               Mean[SeqMap(ClaimedFinbertScalar, AnalysedArticles)])
    /\ pc = "analyze_general_market_sentiment_optimized" =>
          \A i \in 1..Len(call_args.sentiments) :
              LET item == call_args.sentiments[i]
              IN (/\ LabelledNegative(item.combined_analysis.finbert_sentiment)
                  /\ LabelledNegative(item.combined_analysis.general_sentiment))
                 => RLe[item.weighted_score, Zero]

\* sum(score_i * timeWeight_i) / sum(timeWeight_i) over the articles
TimeWeightedMean(articles) ==
    RDiv[RSum[SeqMap(ArticleWeightedScore, articles)],
         RSum[SeqMap(ArticleTimeWeight, articles)]]

\* C15: the category score of a non-empty list is the time-weighted mean
\* sum(score_i * timeWeight_i) / sum(timeWeight_i) of the item scores; for an
\* empty list the score and the confidence are 0.
C15_ScoreIsTimeWeightedMean ==
    pc = "_calculate_sector_sentiment" =>
        IF call_args.articles = <<>>
        THEN IsZero[call_result.sentiment_score] /\ IsZero[call_result.confidence]
        ELSE Near(call_result.sentiment_score,
                  PyRound[TimeWeightedMean(call_args.articles), 3])

\* min(1.0, itemCount / 10)
CountConfidence(itemCount) == RMin[One, R[itemCount, 10]]

\* C16: the confidence of every category aggregation is
\* min(1.0, itemCount / 10).
C16_ConfidenceFromItemCount ==
    /\ pc = "_calculate_sector_sentiment" =>
          Near(call_result.confidence, CountConfidence(Len(call_args.articles)))
    /\ pc \in {"calculate_sentiment_score", "analyze_general_market_sentiment"} =>
          Near(call_result.confidence, CountConfidence(Len(call_args.sentiments)))

\* C17: every category score lies in [-1, 1] and every category confidence
\* in [0, 1].
C17_ScoreAndConfidenceInRange ==
    /\ pc = "_calculate_sector_sentiment" =>
          /\ RLe[RInt[-1], call_result.sentiment_score]
          /\ RLe[call_result.sentiment_score, One]
          /\ RLe[Zero, call_result.confidence]
          /\ RLe[call_result.confidence, One]
    /\ pc \in {"calculate_sentiment_score", "analyze_general_market_sentiment"} =>
          /\ RLe[RInt[-1], call_result.score]
          /\ RLe[call_result.score, One]
          /\ RLe[Zero, call_result.confidence]
          /\ RLe[call_result.confidence, One]

(***************************************************************************)
(* Calls of classify_financial_news_finbert                                *)
(***************************************************************************)
Fillers == {0, 3, 49, 198}

ClassifiedTexts ==
    { Text(words, filler) :
        words \in UNION { [1..n -> Vocabulary] : n \in 0..MaxKeywordWords },
        filler \in Fillers }

\* the same text classified in a process where the FinBERT pipeline was
\* loaded and in one where it was not
ClassifyFinancialNewsFinbert ==
    /\ pc = "start"
    /\ \E text \in ClassifiedTexts, raises \in BOOLEAN :
          /\ call_args' = [text |-> text, raises |-> raises]
          /\ call_result' =
                 [loaded     |-> Call("classify_financial_news_finbert")[text, TRUE, raises],
                  not_loaded |-> Call("classify_financial_news_finbert")[text, FALSE, FALSE]]
    /\ pc' = "classify_financial_news_finbert"
    /\ UNCHANGED <<rankVars, allocVars, newsVars, fusionVars>>

NextClassify == ClassifyFinancialNewsFinbert

SpecClassify == Init /\ [][NextClassify]_vars

\* isFinancial = matches >= 2 OR confidence > 0.2, confidence in [0, 1]
VerdictFollowsRule(verdict) ==
    /\ RLe[Zero, verdict.confidence]
    /\ RLe[verdict.confidence, One]
    /\ verdict.is_financial
          <=> (verdict.keyword_matches >= 2 \/ RLt[R[1, 5], verdict.confidence])

\* C18: whichever path of classify_financial_news_finbert runs, the verdict
\* has a confidence in [0, 1], is financial exactly when the keyword matches
\* are at least 2 or the confidence is above 0.2, and is the same whether or
\* not the model was loaded.
C18_VerdictIndependentOfModel ==
    pc = "classify_financial_news_finbert" =>
        /\ VerdictFollowsRule(call_result.loaded)
        /\ VerdictFollowsRule(call_result.not_loaded)
        /\ call_result.loaded.is_financial = call_result.not_loaded.is_financial
        /\ call_result.loaded.confidence = call_result.not_loaded.confidence

(***************************************************************************)
(* SectorSentimentAnalyzer.classify_article_by_sector                      *)
(***************************************************************************)
\* SECTOR_MAPPINGS[sector]['keywords']
SECTOR_KEYWORDS ==
    [technology |->
        {"technology", "tech", "software", "cloud", "ai",
         "artificial intelligence", "semiconductor", "chip", "hardware",
         "internet", "digital", "cyber", "app", "platform", "algorithm",
         "data center", "quantum", "robotics"},
     healthcare |->
        {"healthcare", "health", "pharmaceutical", "pharma", "biotech",
         "medical", "drug", "vaccine", "clinical", "fda", "medicine",
         "hospital", "therapy", "biomedical", "genomic", "diagnostic",
         "treatment", "patient"},
     financial |->
        {"bank", "banking", "financial", "finance", "credit", "loan",
         "mortgage", "insurance", "investment", "trading", "broker",
         "wealth", "asset management", "fintech", "payment",
         "cryptocurrency", "blockchain", "defi"},
     energy |->
        {"energy", "oil", "gas", "petroleum", "crude", "natural gas",
         "renewable", "solar", "wind", "coal", "nuclear", "electric",
         "battery", "fossil fuel", "drilling", "refinery", "pipeline",
         "opec", "shale"},
     consumer_discretionary |->
        {"retail", "consumer", "shopping", "restaurant", "hotel",
         "travel", "entertainment", "automotive", "luxury", "fashion",
         "gaming", "ecommerce", "marketplace", "brand", "advertising",
         "media"},
     consumer_staples |->
        {"food", "beverage", "grocery", "consumer goods", "household",
         "personal care", "tobacco", "alcohol", "supermarket",
         "packaged goods", "dairy", "meat", "snack", "drink", "cleaning"},
     industrials |->
        {"industrial", "manufacturing", "aerospace", "defense",
         "construction", "machinery", "equipment", "transportation",
         "logistics", "shipping", "infrastructure", "railway", "airline",
         "freight", "supply chain"},
     materials |->
        {"materials", "chemicals", "mining", "metals", "steel",
         "aluminum", "copper", "gold", "silver", "commodity", "paper",
         "packaging", "glass", "cement", "fertilizer", "plastic"},
     utilities |->
        {"utility", "utilities", "electric", "electricity", "power",
         "grid", "water", "natural gas", "renewable energy",
         "solar power", "wind power"},
     real_estate |->
        {"real estate", "property", "reit", "housing", "commercial",
         "residential", "office", "retail space", "warehouse",
         "data center", "hotel", "apartment", "mortgage", "construction",
         "development"},
     communication |->
        {"communication", "telecommunications", "telecom", "media",
         "social media", "streaming", "entertainment", "content",
         "gaming", "wireless", "broadband", "cable", "satellite",
         "internet service"}]

\* the keywords of all sectors that are substrings of a phrase
SectorKeywordsIn(phrase) ==
    CASE phrase = "software" -> {"software"}
      [] phrase = "technology" -> {"tech", "technology"}
      [] phrase = "said" -> {"ai"}
      [] phrase = "cloud" -> {"cloud"}
      [] phrase = "bank" -> {"bank"}
      [] phrase = "banking" -> {"bank", "banking"}
      [] phrase = "oil" -> {"oil"}
      [] phrase = "natural gas" -> {"gas", "natural gas"}
      [] phrase = "media" -> {"media"}
      [] phrase = "hotel" -> {"hotel"}
      [] phrase = "mortgage" -> {"mortgage"}
      [] phrase = "drug" -> {"drug"}
      [] phrase = "the" -> {}
      [] OTHER -> {}

\* the alternatives of a sector's pattern that match whole words of a phrase,
\* one entry per match
PatternMatchesIn(phrase, sector) ==
    CASE phrase = "software" /\ sector = "technology" -> 1
      [] phrase = "cloud" /\ sector = "technology" -> 1
      [] phrase = "bank" /\ sector = "financial" -> 1
      [] phrase = "oil" /\ sector = "energy" -> 1
      [] phrase = "natural gas" /\ sector = "energy" -> 1
      [] phrase = "drug" /\ sector = "healthcare" -> 1
      [] OTHER -> 0

\* Python's None in the ticker argument, which otherwise is a string; it is
\* no ticker of SECTOR_MAPPINGS
NoTicker == "None"

\* if ticker: neither None nor the empty string
Truthy(ticker) == ticker # NoTicker /\ ticker # ""

\* ticker.upper()
Upper(ticker) ==
    CASE ticker = "jpm"  -> "JPM"
      [] ticker = "amzn" -> "AMZN"
      [] OTHER           -> ticker

SectorsOfTicker(ticker) == Call("SectorsOfTicker")[ticker]

\* the sectors whose ticker list has the ticker, in definition order
SectorsOfTickerDef(ticker) ==
    SelectSeq(SECTOR_MAPPINGS,
              LAMBDA sector : Upper(ticker) \in SeqRange(SECTOR_TICKERS[sector]))

\* Method 1: direct ticker mapping, the first sector only (break)
TickerMapping(ticker) ==
    IF Truthy(ticker) /\ SectorsOfTicker(ticker) # <<>>
    THEN [sectors_found     |-> <<SectorsOfTicker(ticker)[1]>>,
          confidence_scores |-> SectorsOfTicker(ticker)[1] :> One]
    ELSE [sectors_found |-> <<>>, confidence_scores |-> EmptyDict]

\* sum(1 for keyword in data['keywords'] if keyword in content)
SectorKeywordMatches(content, sector) ==
    Cardinality({keyword \in SECTOR_KEYWORDS[sector] :
                    \E i \in 1..Len(content) :
                        keyword \in SectorKeywordsIn(content[i])})

\* Method 2 for one sector
KeywordStep(state, content, sector) ==
    LET keyword_matches == SectorKeywordMatches(content, sector)
        confidence ==
            RMin[One, RMul[R[keyword_matches,
                             Cardinality(SECTOR_KEYWORDS[sector])],
                           RInt[10]]]
    IN IF keyword_matches > 0 /\ RLt[R[1, 10], confidence]
       THEN [sectors_found |->
                 IF sector \in SeqRange(state.sectors_found)
                 THEN state.sectors_found
                 ELSE Append(state.sectors_found, sector),
             confidence_scores |->
                 (sector :> RMax[Get(state.confidence_scores, sector, Zero),
                                 confidence])
                 @@ state.confidence_scores]
       ELSE state

KeywordAnalysis(state, content, n) == Call("KeywordAnalysis")[state, content, n]

\* Method 2: the loop over the first n sectors of SECTOR_MAPPINGS; the n-th
\* step is applied to the state the first n - 1 steps leave
KeywordAnalysisDef(state, content, n) ==
    IF n = 0 THEN state
    ELSE [before \in Any |-> KeywordStep(before, content, SECTOR_MAPPINGS[n])][
             KeywordAnalysis(state, content, n - 1)]

\* keys of sector_patterns in definition order
sector_patterns == <<"technology", "healthcare", "financial", "energy">>

\* len(re.findall(pattern, content, re.IGNORECASE))
RECURSIVE PatternMatches(_, _)
PatternMatches(content, sector) ==
    IF content = <<>> THEN 0
    ELSE PatternMatchesIn(Head(content), sector)
         + PatternMatches(Tail(content), sector)

\* a Method 3 that adds the boost without the cap at 1.0
PatternStepUncapped(state, content, sector) ==
    LET matches == PatternMatches(content, sector)
        enhanced_confidence == RMul[RInt[matches], R[3, 10]]
    IN IF matches = 0 THEN state
       ELSE IF sector \notin SeqRange(state.sectors_found)
       THEN [sectors_found     |-> Append(state.sectors_found, sector),
             confidence_scores |-> (sector :> enhanced_confidence)
                                   @@ state.confidence_scores]
       ELSE [state EXCEPT !.confidence_scores =
                (sector :> RAdd[state.confidence_scores[sector],
                                RMul[enhanced_confidence, R[1, 2]]])
                @@ state.confidence_scores]

\* Method 3 for one sector
PatternStep(state, content, sector) ==
    LET matches == PatternMatches(content, sector)
        enhanced_confidence == RMin[One, RMul[RInt[matches], R[3, 10]]]
    IN IF matches = 0 THEN state
       ELSE IF sector \notin SeqRange(state.sectors_found)
               /\ RLt[R[1, 5], enhanced_confidence]
       THEN [sectors_found     |-> Append(state.sectors_found, sector),
             confidence_scores |-> (sector :> enhanced_confidence)
                                   @@ state.confidence_scores]
       ELSE IF HasKey(state.confidence_scores, sector)
       THEN [state EXCEPT !.confidence_scores =
                (sector :> RMin[One, RAdd[state.confidence_scores[sector],
                                          RMul[enhanced_confidence, R[1, 2]]]])
                @@ state.confidence_scores]
       ELSE state

EnhancedDetection(state, content, n) == Call("EnhancedDetection")[state, content, n]

\* Method 3: the loop over the first n patterns; the n-th step is applied to
\* the state the first n - 1 steps leave
EnhancedDetectionDef(state, content, n) ==
    IF n = 0 THEN state
    ELSE [before \in Any |-> PatternStep(before, content, sector_patterns[n])][
             EnhancedDetection(state, content, n - 1)]

\* a choice of the last sector of the highest confidence
RECURSIVE BestSectorLast(_, _)
BestSectorLast(sectors_found, confidence_scores) ==
    IF Len(sectors_found) = 1 THEN sectors_found[1]
    ELSE LET best == BestSectorLast(Tail(sectors_found), confidence_scores)
         IN IF RLt[confidence_scores[best],
                   confidence_scores[Head(sectors_found)]]
            THEN Head(sectors_found) ELSE best

\* max(sectors_found, key=lambda s: confidence_scores.get(s, 0)): the first
\* sector of the highest confidence
RECURSIVE BestSector(_, _)
BestSector(sectors_found, confidence_scores) ==
    IF Len(sectors_found) = 1 THEN sectors_found[1]
    ELSE LET best == BestSector(Tail(sectors_found), confidence_scores)
         IN IF RLe[confidence_scores[best],
                   confidence_scores[Head(sectors_found)]]
            THEN Head(sectors_found) ELSE best

\* content is f"{headline} {summary}".lower() as the sequence of its phrases
classify_article_by_sector(content, ticker) ==
    LET state == EnhancedDetection(
                     KeywordAnalysis(TickerMapping(ticker), content,
                                     Len(SECTOR_MAPPINGS)),
                     content, Len(sector_patterns))
    IN IF state.sectors_found # <<>>
       THEN LET best_sector == BestSector(state.sectors_found,
                                          state.confidence_scores)
            IN [sector      |-> best_sector,
                confidence  |-> state.confidence_scores[best_sector],
                all_matches |-> state.confidence_scores,
                method      |->
                    IF Truthy(ticker)
                       /\ best_sector \in SeqRange(SectorsOfTicker(ticker))
                    THEN "ticker" ELSE "keyword"]
       ELSE [sector      |-> GeneralMarket,
             confidence  |-> R[1, 2],
             all_matches |-> EmptyDict,
             method      |-> "fallback"]

(***************************************************************************)
(* Calls of classify_article_by_sector                                     *)
(***************************************************************************)
Phrases ==
    {"software", "technology", "said", "cloud", "bank", "banking", "oil",
     "natural gas", "media", "hotel", "mortgage", "drug", "the"}

Contents == UNION { [1..n -> Phrases] : n \in 0..MaxPhrases }

Tickers == {NoTicker, "", "AAPL", "jpm", "AMZN", "META", "XOM", "XYZ"}

ClassifyArticleBySector ==
    /\ pc = "start"
    /\ \E content \in Contents, ticker \in Tickers :
          /\ call_args' = [content |-> content, ticker |-> ticker]
          /\ call_result' = Call("classify_article_by_sector")[content, ticker]
    /\ pc' = "classify_article_by_sector"
    /\ UNCHANGED <<rankVars, allocVars, newsVars, fusionVars>>

NextSector == ClassifyArticleBySector

SpecSector == Init /\ [][NextSector]_vars

\* the ticker of the call belongs to some sector's ticker list
TickerListed == 
    /\ Truthy(call_args.ticker)
    /\ \E i \in 1..Len(SECTOR_MAPPINGS) :
          Upper(call_args.ticker) \in SeqRange(SECTOR_TICKERS[SECTOR_MAPPINGS[i]])

\* C19: when the ticker belongs to some sector's ticker list, the returned
\* sector is one whose ticker list contains the ticker and the returned
\* confidence is exactly 1.0, whatever the text.
C19_ListedTickerWins ==
    (pc = "classify_article_by_sector" /\ TickerListed) =>
        /\ Upper(call_args.ticker) \in SeqRange(SECTOR_TICKERS[call_result.sector])
        /\ REq[call_result.confidence, One]

\* a listed ticker and a text that brings another sector to confidence 1.0
C19_Witness ==
    /\ pc = "classify_article_by_sector"
    /\ TickerListed
    /\ \E sector \in DOMAIN call_result.all_matches :
          /\ Upper(call_args.ticker) \notin SeqRange(SECTOR_TICKERS[sector])
          /\ REq[call_result.all_matches[sector], One]

(***************************************************************************)
(* Calls of HybridRecommendationEngine._select_top_sectors                 *)
(***************************************************************************)
\* sector_results with news for the first sectors only
RankedSectorChoices ==
    SectorChoicesOf(MaxRankedSectors,
                    {data \in SectorData : data.article_count >= 3}
                    \cup {[article_count |-> 2, sentiment_score |-> R[9, 10],
                           confidence |-> R[1, 5]]})

\* one call of _select_top_sectors on the rankings _rank_sectors returns
SelectTopSectors ==
    /\ pc = "start"
    /\ \E f \in Call("RankedSectorChoices"), max_sectors \in 0..MaxSectorsArg,
          risk_tolerance \in RiskToleranceArgs :
          LET sector_rankings_dict == Call("_rank_sectors")[DictOf(f, TargetSectors(NoSector))]
          IN /\ call_args' = [sector_rankings |-> sector_rankings_dict,
                              max_sectors     |-> max_sectors,
                              risk_tolerance  |-> risk_tolerance]
             /\ call_result' = Call("_select_top_sectors")[sector_rankings_dict,
                                                   max_sectors, risk_tolerance]
    /\ pc' = "_select_top_sectors"
    /\ UNCHANGED <<rankVars, allocVars, newsVars, fusionVars>>

NextSelect == SelectTopSectors

SpecSelect == Init /\ [][NextSelect]_vars

\* conservative: confidence >= 0.5 and score >= 0; moderate: confidence >=
\* 0.3 and score >= -0.1; aggressive: confidence >= 0.2
PassesStatedFilter(risk_tolerance, x) ==
    CASE risk_tolerance = "conservative" ->
             RLe[R[1, 2], x.confidence] /\ RLe[Zero, x.sentiment_score]
      [] risk_tolerance = "moderate" ->
             RLe[R[3, 10], x.confidence] /\ RLe[R[-1, 10], x.sentiment_score]
      [] risk_tolerance = "aggressive" ->
             RLe[R[1, 5], x.confidence]

\* the ranked sectors of the call that pass the stated filter
PassingRanks ==
    { i \in 1..Len(call_args.sector_rankings.rankings) :
        PassesStatedFilter(call_args.risk_tolerance,
                           call_args.sector_rankings.rankings[i]) }

\* C20: for the three named risk tolerances _select_top_sectors returns
\* ranked sectors in ranking order; every returned sector passes the filter
\* of the risk tolerance; their number is the smaller of max_sectors and the
\* number of passing sectors; and every passing sector ranked above a
\* returned one is returned too.
C20_TopSectorsPassingFilter ==
    (pc = "_select_top_sectors" /\ call_args.risk_tolerance \in RiskTolerances) =>
        LET rankings == call_args.sector_rankings.rankings
            selected == call_result
        IN /\ \A k \in 1..Len(selected) :
                 /\ selected[k].rank \in PassingRanks
                 /\ selected[k] = rankings[selected[k].rank]
                 /\ k > 1 => selected[k - 1].rank < selected[k].rank
                 /\ \A i \in PassingRanks :
                       i < selected[k].rank =>
                          \E j \in 1..k : selected[j].rank = i
           /\ Len(selected) = Min2[call_args.max_sectors,
                                   Cardinality(PassingRanks)]

\* a sector that fails the filter is passed over for a lower-ranked one, and
\* a passing sector is left out because max_sectors is reached
C20_Witness ==
    /\ pc = "_select_top_sectors"
    /\ call_args.risk_tolerance \in RiskTolerances
    /\ \E k \in 1..Len(call_result) :
          \E i \in 1..Len(call_args.sector_rankings.rankings) :
             i < call_result[k].rank /\ i \notin PassingRanks
    /\ Len(call_result) < Cardinality(PassingRanks)

(***************************************************************************)
(* Calls of HybridRecommendationEngine._assess_portfolio_risk              *)
(***************************************************************************)
\* sector_percentage values on both sides of the thresholds 25 and 40
SectorPercentages == {RInt[25], RInt[26], RInt[40], RInt[41]}

\* sentiment scores of the stocks of one sector
SectorStockScores ==
    { <<R[3, 10], R[3, 10]>>,
      <<R[3, 10], R[3, 10], R[3, 10]>>,
      <<One, R[-1, 1], R[3, 10]>> }

\* a portfolio_allocation of n sectors as _assess_portfolio_risk reads it
RiskInput(n, percentages, scores) ==
    List[[i \in 1..n |->
       [sector_percentage |-> percentages[i],
        stocks |-> [j \in 1..Len(scores[i]) |->
                      [sentiment_score |-> scores[i][j]]]]]]

\* two calls of _assess_portfolio_risk on allocations with the same stocks
\* and their own sector percentages
AssessPortfolioRisk ==
    /\ pc = "start"
    /\ \E n \in 1..MaxAllocSectors :
          \E scores \in [1..n -> Call("SectorStockScores")],
             lower \in [1..n -> Call("SectorPercentages")],
             higher \in [1..n -> Call("SectorPercentages")] :
             /\ call_args' = [lower  |-> RiskInput(n, lower, scores),
                              higher |-> RiskInput(n, higher, scores)]
             /\ call_result' =
                    [lower  |-> Call("_assess_portfolio_risk")[
                                    RiskInput(n, lower, scores), "moderate"],
                     higher |-> Call("_assess_portfolio_risk")[
                                    RiskInput(n, higher, scores), "moderate"]]
    /\ pc' = "_assess_portfolio_risk"
    /\ UNCHANGED <<rankVars, allocVars, newsVars, fusionVars>>

NextRisk == AssessPortfolioRisk

SpecRisk == Init /\ [][NextRisk]_vars

\* Low < Medium < High
TierRank(risk_level) ==
    CASE risk_level = "Low" -> 1
      [] risk_level = "Medium" -> 2
      [] risk_level = "High" -> 3

\* max(sector_data['sector_percentage'])
Concentration(allocation) == RMaxSeq(SeqMap(SectorPercentageOf, allocation))

\* C21: with the positions and the sentiment scores held fixed, a higher
\* maximum sector percentage never gives a lower risk tier, and a
\* concentration above 40 gives High.
C21_TierMonotoneInConcentration ==
    pc = "_assess_portfolio_risk" =>
        /\ RLe[Concentration(call_args.lower), Concentration(call_args.higher)]
              => TierRank(call_result.lower.risk_level)
                    <= TierRank(call_result.higher.risk_level)
        /\ RLt[RInt[40], Concentration(call_args.higher)]
              => call_result.higher.risk_level = "High"

\* five positions or more, a low tier, and a concentration raised past 40
C21_Witness ==
    /\ pc = "_assess_portfolio_risk"
    /\ call_result.lower.total_positions >= 5
    /\ call_result.lower.risk_level = "Low"
    /\ RLt[RInt[40], Concentration(call_args.higher)]
    /\ call_result.higher.risk_level = "High"

(***************************************************************************)
(* Properties of the denominators                                          *)
(***************************************************************************)
\* C22: constructing the analyzer with any configured base weights, all
\* zero included, raises no ZeroDivisionError; and weights of a positive
\* total are normalized to sum to 1 with their ratios preserved.
C22_NoDivisionByZero ==
    /\ pc # "raised"
    /\ pc \in {"UnifiedSentimentAnalyzer", "analyze_comprehensive_sentiment"} =>
          /\ Near(RAdd[RAdd[self_weights.twitter, self_weights.reddit],
                       self_weights.news], One)
          /\ Near(RMul[self_weights.twitter, call_args.news],
                  RMul[self_weights.news, call_args.twitter])
          /\ Near(RMul[self_weights.reddit, call_args.news],
                  RMul[self_weights.news, call_args.reddit])

(***************************************************************************)
(* Properties of the sector returned by classify_article_by_sector         *)
(***************************************************************************)
\* no sector matches the call by ticker, by keyword or by pattern
NoSectorMatches ==
    /\ ~(Truthy(call_args.ticker) /\ SectorsOfTicker(call_args.ticker) # <<>>)
    /\ \A i \in 1..Len(SECTOR_MAPPINGS) :
          SectorKeywordMatches(call_args.content, SECTOR_MAPPINGS[i]) = 0
    /\ \A i \in 1..Len(sector_patterns) :
          PatternMatches(call_args.content, sector_patterns[i]) = 0

\* C23: the returned sector is a matched sector of the highest confidence
\* (the returned confidence is the maximum of all_matches); with no match by
\* ticker, keyword or pattern the result is general_market with confidence
\* 0.5; the returned confidence is in (0, 1].
C23_HighestConfidenceOrFallback ==
    pc = "classify_article_by_sector" =>
        LET all_matches == call_result.all_matches
        IN /\ RLt[Zero, call_result.confidence]
           /\ RLe[call_result.confidence, One]
           /\ DOMAIN all_matches # {} =>
                 /\ call_result.sector \in DOMAIN all_matches
                 /\ REq[call_result.confidence, all_matches[call_result.sector]]
                 /\ \A sector \in DOMAIN all_matches :
                       RLe[all_matches[sector], call_result.confidence]
           /\ NoSectorMatches =>
                 /\ call_result.sector = GeneralMarket
                 /\ REq[call_result.confidence, R[1, 2]]
                 /\ DOMAIN all_matches = {}
           /\ ~NoSectorMatches => call_result.sector # GeneralMarket

\* without a ticker, several sectors match with different confidences and
\* one that was boosted by its pattern is returned
C23_Witness ==
    /\ pc = "classify_article_by_sector"
    /\ ~Truthy(call_args.ticker)
    /\ Cardinality(DOMAIN call_result.all_matches) >= 2
    /\ \E sector \in DOMAIN call_result.all_matches :
          RLt[call_result.all_matches[sector], call_result.confidence]
    /\ PatternMatches(call_args.content, call_result.sector) > 0

(***************************************************************************)
(* The aggregators on a list and on a permutation of it                    *)
(***************************************************************************)
ItemOrders(n) ==
    { p \in [1..n -> 1..n] : \A i, j \in 1..n : p[i] = p[j] => i = j }

Permuted(items, p) == List[[i \in 1..Len(items) |-> items[p[i]]]]

\* calculate_sentiment_score on the items in two orders
PermuteCalculateSentimentScore ==
    /\ pc = "start"
    /\ \E n \in 0..MaxPermuted :
          \E sentiments \in [1..n -> Call("NewsItems")], p \in ItemOrders(n) :
             /\ call_args' = [sentiments |-> sentiments, p |-> p]
             /\ call_result' =
                    [given    |-> Call("calculate_sentiment_score")[sentiments],
                     permuted |-> Call("calculate_sentiment_score")[
                                      Permuted(sentiments, p)]]
    /\ pc' = "permuted calculate_sentiment_score"
    /\ UNCHANGED <<rankVars, allocVars, newsVars, fusionVars>>

\* _calculate_sector_sentiment on the articles in two orders
PermuteCalculateSectorSentiment ==
    /\ pc = "start"
    /\ \E n \in 0..MaxPermuted :
          \E articles \in [1..n -> Call("SectorArticles")], p \in ItemOrders(n) :
             /\ call_args' = [articles |-> articles, p |-> p]
             /\ call_result' =
                    [given    |-> Call("_calculate_sector_sentiment")[
                                      articles, "technology"],
                     permuted |-> Call("_calculate_sector_sentiment")[
                                      Permuted(articles, p), "technology"]]
    /\ pc' = "permuted _calculate_sector_sentiment"
    /\ UNCHANGED <<rankVars, allocVars, newsVars, fusionVars>>

\* general_score['total_articles'], a key that the score of an empty list
\* does not have
KeyError(key) == [error |-> "KeyError", key |-> key]

\* analyze_comprehensive_news_sentiment from the two scores on: the report
\* printed for each category reads total_articles of its score before
\* calculate_weighted_combined_sentiment is called
WeightedCombinedOf(general_score, stock_score, general_sentiments, stock_sentiments) ==
    IF ~HasKey(general_score, "total_articles") THEN KeyError("total_articles")
    ELSE IF ~HasKey(stock_score, "total_articles") THEN KeyError("total_articles")
    ELSE calculate_weighted_combined_sentiment(
             general_score, stock_score, general_sentiments, stock_sentiments)

\* weighted_combined of analyze_comprehensive_news_sentiment, for the lists
\* that analyze_general_market_sentiment and analyze_stock_specific_sentiment
\* return; a raised KeyError is the value
CombinedOf(general_sentiments, stock_sentiments) ==
    WeightedCombinedOf(calculate_sentiment_score(general_sentiments),
                       calculate_sentiment_score(stock_sentiments),
                       general_sentiments, stock_sentiments)

\* analyze_comprehensive_news_sentiment up to weighted_combined, with the
\* items of each category in two orders
PermuteCalculateWeightedCombinedSentiment ==
    /\ pc = "start"
    /\ \E general_sentiments \in Call("NewsLists"), stock_sentiments \in Call("NewsLists") :
          \E p \in ItemOrders(Len(general_sentiments)),
             q \in ItemOrders(Len(stock_sentiments)) :
             /\ call_args' = [general_sentiments |-> general_sentiments,
                              stock_sentiments   |-> stock_sentiments,
                              p |-> p, q |-> q]
             /\ call_result' =
                    [given    |-> Call("CombinedOf")[general_sentiments, stock_sentiments],
                     permuted |-> Call("CombinedOf")[Permuted(general_sentiments, p),
                                             Permuted(stock_sentiments, q)]]
    /\ pc' = "permuted calculate_weighted_combined_sentiment"
    /\ UNCHANGED <<rankVars, allocVars, newsVars, fusionVars>>

NextPermute ==
    \/ PermuteCalculateSentimentScore
    \/ PermuteCalculateSectorSentiment
    \/ PermuteCalculateWeightedCombinedSentiment

SpecPermute == Init /\ [][NextPermute]_vars

\* C24: score, confidence and label of calculate_sentiment_score and of
\* _calculate_sector_sentiment, and the combined score of
\* calculate_weighted_combined_sentiment, are the same for a list of items
\* and for every permutation of it.
C24_OrderOfItemsIrrelevant ==
    /\ pc = "permuted calculate_sentiment_score" =>
          /\ Near(call_result.given.score, call_result.permuted.score)
          /\ Near(call_result.given.confidence, call_result.permuted.confidence)
          /\ call_result.given.label = call_result.permuted.label
    /\ pc = "permuted _calculate_sector_sentiment" =>
          /\ Near(call_result.given.sentiment_score,
                  call_result.permuted.sentiment_score)
          /\ Near(call_result.given.confidence, call_result.permuted.confidence)
          /\ call_result.given.sentiment_label
                = call_result.permuted.sentiment_label
    /\ pc = "permuted calculate_weighted_combined_sentiment" =>
          IF HasKey(call_result.given, "error")
          THEN call_result.permuted = call_result.given
          ELSE /\ ~HasKey(call_result.permuted, "error")
               /\ Near(call_result.given.weighted_score,
                       call_result.permuted.weighted_score)

(***************************************************************************)
(* The combined values as convex combinations                              *)
(***************************************************************************)
\* x lies between a and b, up to the rounding of floating-point arithmetic
Between(x, a, b) ==
    /\ RLe[RSub[RMin[a, b], Tolerance], x]
    /\ RLe[x, RAdd[RMax[a, b], Tolerance]]

\* C25: the combined score of calculate_weighted_combined_sentiment lies
\* between the general and the stock-specific score, and the combined
\* confidence between the two confidences.
C25_CombinedIsConvexCombination ==
    pc = "calculate_weighted_combined_sentiment" =>
        /\ Between(weighted_combined.weighted_score,
                   news_args.general_score.score, news_args.stock_score.score)
        /\ Between(weighted_combined.confidence,
                   news_args.general_score.confidence,
                   news_args.stock_score.confidence)

\* two categories of different score and confidence, the combined values
\* strictly between them
C25_Witness ==
    /\ pc = "calculate_weighted_combined_sentiment"
    /\ RLt[news_args.general_score.score, weighted_combined.weighted_score]
    /\ RLt[weighted_combined.weighted_score, news_args.stock_score.score]
    /\ RLt[news_args.stock_score.confidence, weighted_combined.confidence]
    /\ RLt[weighted_combined.confidence, news_args.general_score.confidence]

(***************************************************************************)
(* Signs and totals of the allocation                                      *)
(***************************************************************************)
\* the sectors handed to the allocator pass the filter of the risk tolerance
SectorsPassFilter ==
    \A i \in 1..Len(stock_recommendations) :
       RiskFilter(alloc_args.risk_tolerance,
                  stock_recommendations[i].sector_info)

\* C26: for the three risk tolerances and sectors that pass the tolerance's
\* selection filter, every sector_allocation and every stock
\* allocation_amount of _calculate_portfolio_allocation is non-negative.
C26_AllocationsNonNegative ==
    (/\ pc = "_calculate_portfolio_allocation"
     /\ alloc_args.risk_tolerance \in RiskTolerances
     /\ SectorsPassFilter) =>
        \A i \in 1..Len(portfolio_allocation) :
           /\ RLe[Zero, portfolio_allocation[i].sector_allocation]
           /\ \A j \in 1..Len(portfolio_allocation[i].stocks) :
                 RLe[Zero, portfolio_allocation[i].stocks[j].allocation_amount]

\* a is at most b, up to the rounding of floating-point arithmetic
AtMost(a, b) == RLe[a, RAdd[b, Tolerance]]

\* sum of sector_allocation over the sectors of an allocation
SectorAllocationTotal(allocation) ==
    RSum[List[[i \in 1..Len(allocation) |-> allocation[i].sector_allocation]]]

\* C27: the sector allocations of _calculate_portfolio_allocation sum to at
\* most portfolio_size, and the total_investment of the execution plan, the
\* sum of all stock amounts, is at most portfolio_size.
C27_NeverMoreThanPortfolio ==
    /\ pc = "_calculate_portfolio_allocation" =>
          /\ AtMost(SectorAllocationTotal(portfolio_allocation),
                    alloc_args.portfolio_size)
          /\ AtMost(_create_execution_plan(portfolio_allocation).total_investment,
                    alloc_args.portfolio_size)
    /\ (pc = "generate_investment_recommendations"
        /\ ~HasKey(final_recommendations, "error")) =>
          /\ AtMost(SectorAllocationTotal(final_recommendations.portfolio_allocation),
                    alloc_args.portfolio_size)
          /\ AtMost(final_recommendations.execution_plan.total_investment,
                    alloc_args.portfolio_size)

\* two sectors of full score and confidence: the whole portfolio is
\* allocated to the sectors
C27_Witness ==
    /\ pc = "_calculate_portfolio_allocation"
    /\ Len(portfolio_allocation) = 2
    /\ Near(SectorAllocationTotal(portfolio_allocation), alloc_args.portfolio_size)
    /\ RLt[Zero, _create_execution_plan(portfolio_allocation).total_investment]

(***************************************************************************)
(* The risk tolerances side by side                                        *)
(***************************************************************************)
\* risk tolerance strings that are no key of risk_filters and risk_weights
UnrecognizedTolerances == {"balanced", "Moderate"}

\* stock_recommendations for the selected sectors, one stock each
RecommendationsFor(selected) ==
    List[[i \in 1..Len(selected) |->
       [sector             |-> selected[i].sector,
        sector_info        |-> selected[i],
        recommended_stocks |->
            << [ticker          |-> SECTOR_TICKERS[selected[i].sector][1],
                sentiment_score |-> R[3, 10],
                confidence      |-> R[3, 5]] >>]]]

\* the same rankings selected without a cut and allocated under each risk
\* tolerance and under an unrecognized one
CompareRiskTolerances ==
    /\ pc = "start"
    /\ \E f \in Call("RankedSectorChoices"), unrecognized \in UnrecognizedTolerances,
          portfolio_size \in Call("PortfolioSizes") :
          LET sector_rankings_dict == Call("_rank_sectors")[DictOf(f, TargetSectors(NoSector))]
              max_sectors == Len(SECTOR_MAPPINGS)
              tolerances  == RiskTolerances \cup {unrecognized}
              selected    == [t \in tolerances |->
                                Call("_select_top_sectors")[sector_rankings_dict,
                                                    max_sectors, t]]
          IN /\ call_args' = [sector_rankings |-> sector_rankings_dict,
                              unrecognized    |-> unrecognized,
                              portfolio_size  |-> portfolio_size]
             /\ call_result' =
                    [selected   |-> selected,
                     allocation |->
                         [t \in tolerances |->
                            Call("_calculate_portfolio_allocation")[
                                Call("RecommendationsFor")[selected[t]],
                                portfolio_size, t]]]
    /\ pc' = "risk tolerances"
    /\ UNCHANGED <<rankVars, allocVars, newsVars, fusionVars>>

NextTolerance == CompareRiskTolerances

SpecTolerance == Init /\ [][NextTolerance]_vars

\* C28: every ranked sector accepted under conservative is accepted under
\* moderate, every one accepted under moderate is accepted under
\* aggressive, and an unrecognized risk tolerance selects and allocates
\* exactly as moderate does.
C28_FiltersNestedUnknownIsModerate ==
    pc = "risk tolerances" =>
        /\ SeqRange(call_result.selected["conservative"])
              \subseteq SeqRange(call_result.selected["moderate"])
        /\ SeqRange(call_result.selected["moderate"])
              \subseteq SeqRange(call_result.selected["aggressive"])
        /\ call_result.selected[call_args.unrecognized]
              = call_result.selected["moderate"]
        /\ call_result.allocation[call_args.unrecognized]
              = call_result.allocation["moderate"]

\* the three selections differ and the moderate allocation is not the
\* conservative one
C28_Witness ==
    /\ pc = "risk tolerances"
    /\ call_result.selected["conservative"] # <<>>
    /\ Len(call_result.selected["conservative"])
          < Len(call_result.selected["moderate"])
    /\ Len(call_result.selected["moderate"])
          < Len(call_result.selected["aggressive"])
    /\ call_result.allocation[call_args.unrecognized]
          # _calculate_portfolio_allocation(
                RecommendationsFor(call_result.selected["moderate"]),
                call_args.portfolio_size, "conservative")

(***************************************************************************)
(* The news channel of the fusion                                          *)
(***************************************************************************)
\* the news analysis was asked for and returned a result without 'error'
NewsSucceeded ==
    /\ pc = "analyze_comprehensive_sentiment"
    /\ "news" \in channel_args.include
    /\ ~channel_args.fetched["news"].raised
    /\ ~HasKey(channel_args.fetched["news"].value, "error")

ItemGetScoreOfAnalysis(item) ==
    SignedScore(item.combined_analysis.finbert_sentiment)

\* item.get('score', 0)
ItemGetScore(item) == Get(item, "score", Zero)

TimeWeightedItem(item, now) == Call("TimeWeightedItem")[item, now]

\* item['time_weight'] and item['weighted_score'] as the loop sets them
TimeWeightedItemDef(item, now) ==
    IF HasKey(item, "publishedAt")
    THEN LET time_weight ==
                 calculate_time_decay_weight(item["publishedAt"], 24,
                                             R[1, 10], now)
         IN [time_weight    |-> time_weight,
             weighted_score |-> RMul[ItemGetScore(item), time_weight]]
            @@ item
    ELSE [time_weight |-> One, weighted_score |-> ItemGetScore(item)]
         @@ item

\* sum(item.get(key, default) for item in sentiments) / max(len(sentiments), 1)
ItemAverage(sentiments, key, default) ==
    RDiv[RSum[List[[i \in 1..Len(sentiments) |-> Get(sentiments[i], key, default)]]],
         RInt[IF Len(sentiments) > 1 THEN Len(sentiments) ELSE 1]]

\* sum(1 for item in sentiments if item.get('is_financial', False))
FinancialArticles(sentiments) ==
    Len(SelectSeq(sentiments, LAMBDA item : Get(item, "is_financial", FALSE)))

\* one entry of component_analysis
ComponentAnalysis(sentiments) ==
    [average_sentiment  |-> PyRound[ItemAverage(sentiments, "weighted_score",
                                                Zero), 3],
     article_count      |-> Len(sentiments),
     financial_articles |-> FinancialArticles(sentiments),
     financial_ratio    |->
         RDiv[RInt[FinancialArticles(sentiments)],
              RInt[IF Len(sentiments) > 1 THEN Len(sentiments) ELSE 1]],
     avg_time_weight    |-> PyRound[ItemAverage(sentiments, "time_weight",
                                                One), 3]]

\* general_sentiments and stock_sentiments are what
\* analyze_general_market_sentiment and analyze_stock_specific_sentiment
\* returned, now the current time
analyze_comprehensive_news_sentiment_advanced(general_sentiments, stock_sentiments, now) ==
    LET general == List[[i \in 1..Len(general_sentiments) |->
                        TimeWeightedItem(general_sentiments[i], now)]]
        stock   == List[[i \in 1..Len(stock_sentiments) |->
                        TimeWeightedItem(stock_sentiments[i], now)]]
        general_weighted_avg == ItemAverage(general, "weighted_score", Zero)
        stock_weighted_avg   == ItemAverage(stock, "weighted_score", Zero)
        final_sentiment ==
            RAdd[RMul[general_weighted_avg, R[2, 5]],
                 RMul[stock_weighted_avg, R[3, 5]]]
    IN [ticker             |-> "ticker",
        analysis_type      |-> "advanced_comprehensive",
        sentiment_analysis |->
            [combined_sentiment_score |-> PyRound[final_sentiment, 3],
             sentiment_label |->
                 IF RLt[R[1, 10], final_sentiment] THEN "Positive"
                 ELSE IF RLt[final_sentiment, R[-1, 10]] THEN "Negative"
                 ELSE "Neutral",
             weights |-> [general_market_weight |-> R[2, 5],
                          stock_specific_weight |-> R[3, 5]],
             component_analysis |->
                 [general_market |-> ComponentAnalysis(general),
                  stock_specific |-> ComponentAnalysis(stock)],
             metadata |-> [time_decay_applied |-> TRUE]],
        detailed_breakdown |->
            [general_market_articles |-> general,
             stock_specific_articles |-> stock]]

\* one call of analyze_comprehensive_news_sentiment_advanced
AnalyzeComprehensiveNewsSentimentAdvanced ==
    /\ pc = "start"
    /\ \E general_sentiments \in Call("AnalyzedLists"),
          stock_sentiments \in Call("AnalyzedLists"), now \in Nows :
          /\ call_args' = [general_sentiments |-> general_sentiments,
                           stock_sentiments   |-> stock_sentiments,
                           now                |-> now]
          /\ call_result' =
                 Call("analyze_comprehensive_news_sentiment_advanced")[
                     general_sentiments, stock_sentiments, now]
    /\ pc' = "analyze_comprehensive_news_sentiment_advanced"
    /\ UNCHANGED <<rankVars, allocVars, newsVars, fusionVars>>

NextAdvanced == AnalyzeComprehensiveNewsSentimentAdvanced

SpecAdvanced == Init /\ [][NextAdvanced]_vars

\* every model output of the article has the label, in either spelling
CarriesSentiment(item, label) ==
    \A sentiment \in { item.combined_analysis.finbert_sentiment,
                       item.combined_analysis.general_sentiment,
                       item.headline_only.finbert_sentiment,
                       item.headline_only.general_sentiment } :
        sentiment # None /\ Lower(sentiment.label) = label

\* there are articles and each of them carries the label
AllArticlesCarry(label) ==
    /\ Len(call_args.general_sentiments) + Len(call_args.stock_sentiments) > 0
    /\ \A i \in 1..Len(call_args.general_sentiments) :
          CarriesSentiment(call_args.general_sentiments[i], label)
    /\ \A i \in 1..Len(call_args.stock_sentiments) :
          CarriesSentiment(call_args.stock_sentiments[i], label)

\* C30: each analyzed article contributes its signed sentiment score, scaled
\* by its time weight, to the category averages: when every general-market
\* and stock-specific article carries the same non-neutral model sentiment,
\* the combined_sentiment_score is non-zero and has the sign of that
\* sentiment.
C30_UniformSentimentGivesItsSign ==
    pc = "analyze_comprehensive_news_sentiment_advanced" =>
        /\ AllArticlesCarry("positive")
              => RLt[Zero, call_result.sentiment_analysis.combined_sentiment_score]
        /\ AllArticlesCarry("negative")
              => RLt[call_result.sentiment_analysis.combined_sentiment_score, Zero]

(***************************************************************************)
(* The operations by name: Call(op) is the operation op as a function of  *)
(* its arguments, so that Call(op)[a, b] is op applied to the values a, b  *)
(***************************************************************************)
Call(op) ==
    CASE op = "RAdd" -> RAddDef
      [] op = "RMul" -> RMulDef
      [] op = "FPack" -> FPackDef
      [] op = "FCmp" -> FCmpDef
      [] op = "RDiv" -> RDivDef
      [] op = "RInt" -> RIntDef
      [] op = "Carry" -> CarryDef
      [] op = "BShl" -> BShlDef
      [] op = "BShr" -> BShrDef
      [] op = "BRoundShift" -> BRoundShiftDef
      [] op = "PyRound" -> PyRoundDef
      [] op = "RSum" -> RSumDef
      [] op = "np_sum" -> np_sumDef
      [] op = "np_std" -> np_stdDef
      [] op = "math_exp" -> math_expDef
      [] op = "TimeWeightedItem" ->
           [item \in Any, now \in Any |-> TimeWeightedItemDef(item, now)]
      [] op = "WeightedItem" ->
           [item \in Any |-> WeightedItemDef(item)]
      [] op = "StockRecommendations" ->
           [top_sectors \in Any, stocks_per_sector \in Any, news \in Any, i \in Any |-> StockRecommendationsDef(top_sectors, stocks_per_sector, news, i)]
      [] op = "AdjustedWeight" ->
           [base_weight \in Any, confidence_avg \in Any |-> AdjustedWeightDef(base_weight, confidence_avg)]
      [] op = "ConfidenceAvg" ->
           [sentiments \in Any |-> ConfidenceAvgDef(sentiments)]
      [] op = "KeywordAnalysis" ->
           [state \in Any, content \in Any, n \in Any |-> KeywordAnalysisDef(state, content, n)]
      [] op = "Rankings" ->
           [results \in Any |-> RankingsDef(results)]
      [] op = "SectorsOfTicker" ->
           [ticker \in Any |-> SectorsOfTickerDef(ticker)]
      [] op = "EnhancedDetection" ->
           [state \in Any, content \in Any, n \in Any |-> EnhancedDetectionDef(state, content, n)]
      [] op = "ParsePublishDate" ->
           [publish_date_str \in Any, i \in Any |-> ParsePublishDateDef(publish_date_str, i)]
      [] op = "KeywordMatches" ->
           [text \in Any, financial_keywords \in Any |-> KeywordMatchesDef(text, financial_keywords)]
      [] op = "Boosted" ->
           [weight \in Any, financial_ratio \in Any |-> BoostedDef(weight, financial_ratio)]
      [] op = "SectorAllocation" ->
           [data \in Any, total_sectors \in Any, weights \in Any, portfolio_size \in Any |-> SectorAllocationDef(data, total_sectors, weights, portfolio_size)]
      [] op = "AllStocks" ->
           [allocation \in Any |-> AllStocksDef(allocation)]
      [] op = "FinancialRatio" ->
           [score \in Any |-> FinancialRatioDef(score)]
      [] op = "classify_financial_news_keywords" ->
           [text \in Any |-> classify_financial_news_keywordsDef(text)]
      [] op = "R" ->
           [n \in Any, d \in Any |-> R[n, d]]
      [] op = "_rank_sectors" ->
           [results \in Any |-> _rank_sectors(results)]
      [] op = "_select_top_sectors" ->
           [rankings_dict \in Any, max_sectors \in Any, risk_tolerance \in Any |-> _select_top_sectors(rankings_dict, max_sectors, risk_tolerance)]
      [] op = "_calculate_portfolio_allocation" ->
           [recs \in Any, portfolio_size \in Any, risk_tolerance \in Any |-> _calculate_portfolio_allocation(recs, portfolio_size, risk_tolerance)]
      [] op = "_assess_portfolio_risk" ->
           [allocation \in Any, risk_tolerance \in Any |-> _assess_portfolio_risk(allocation, risk_tolerance)]
      [] op = "generate_investment_recommendations" ->
           [sector_analysis \in Any, portfolio_size \in Any, risk_tolerance \in Any, max_sectors \in Any, stocks_per_sector \in Any, news \in Any |-> generate_investment_recommendations(sector_analysis, portfolio_size, risk_tolerance, max_sectors, stocks_per_sector, news)]
      [] op = "calculate_sentiment_score" ->
           [sentiments \in Any |-> calculate_sentiment_score(sentiments)]
      [] op = "calculate_weighted_combined_sentiment" ->
           [general_score \in Any, stock_score \in Any, general_sentiments \in Any, stock_sentiments \in Any |-> calculate_weighted_combined_sentiment(general_score, stock_score, general_sentiments, stock_sentiments)]
      [] op = "SentimentWeights" ->
           [twitter \in Any, reddit \in Any, news \in Any |-> SentimentWeights(twitter, reddit, news)]
      [] op = "analyze_comprehensive_sentiment" ->
           [w \in Any, include \in Any, fetched \in Any |-> analyze_comprehensive_sentiment(w, include, fetched)]
      [] op = "SectorChoices" -> SectorChoices
      [] op = "PortfolioSizes" -> PortfolioSizes
      [] op = "SectorInfos" -> SectorInfos
      [] op = "StockLists" -> StockLists
      [] op = "PipelineSectorChoices" -> PipelineSectorChoices
      [] op = "StockNewsChoices" -> StockNewsChoices
      [] op = "NewsItems" -> NewsItems
      [] op = "NewsLists" -> NewsLists
      [] op = "WeightArgs" -> WeightArgs
      [] op = "FetchChoices" ->
           [include \in Any |-> FetchChoices(include)]
      [] op = "calculate_time_decay_weight" ->
           [publish_date_str \in Any, decay_hours \in Any, min_weight \in Any, now \in Any |-> calculate_time_decay_weight(publish_date_str, decay_hours, min_weight, now)]
      [] op = "calculate_time_decay_weight_optimized" ->
           [published_at_str \in Any, max_age_hours \in Any, now \in Any |-> calculate_time_decay_weight_optimized(published_at_str, max_age_hours, now)]
      [] op = "MinWeights" -> MinWeights
      [] op = "classify_financial_news_finbert" ->
           [text \in Any, loaded \in Any, raises \in Any |-> classify_financial_news_finbert(text, loaded, raises)]
      [] op = "analyze_general_market_sentiment" ->
           [articles \in Any, loaded \in Any |-> analyze_general_market_sentiment(articles, loaded)]
      [] op = "analyze_general_market_sentiment_optimized" ->
           [articles \in Any, now \in Any |-> analyze_general_market_sentiment_optimized(articles, now)]
      [] op = "TimeDecayed" ->
           [item \in Any, now \in Any |-> TimeDecayed(item, now)]
      [] op = "WeightedAvg" ->
           [sentiments \in Any |-> WeightedAvg(sentiments)]
      [] op = "_calculate_sector_sentiment" ->
           [articles \in Any, sector \in Any |-> _calculate_sector_sentiment(articles, sector)]
      [] op = "ArticleLists" -> ArticleLists
      [] op = "SectorArticles" -> SectorArticles
      [] op = "SectorArticleLists" -> SectorArticleLists
      [] op = "classify_article_by_sector" ->
           [content \in Any, ticker \in Any |-> classify_article_by_sector(content, ticker)]
      [] op = "RankedSectorChoices" -> RankedSectorChoices
      [] op = "SectorPercentages" -> SectorPercentages
      [] op = "SectorStockScores" -> SectorStockScores
      [] op = "CombinedOf" ->
           [general_sentiments \in Any, stock_sentiments \in Any |-> CombinedOf(general_sentiments, stock_sentiments)]
      [] op = "RecommendationsFor" ->
           [selected \in Any |-> RecommendationsFor(selected)]
      [] op = "analyze_comprehensive_news_sentiment_advanced" ->
           [general_sentiments \in Any, stock_sentiments \in Any, now \in Any |-> analyze_comprehensive_news_sentiment_advanced(general_sentiments, stock_sentiments, now)]
      [] op = "AnalyzedLists" -> AnalyzedLists

====
